---- MODULE Spec2Model ----
(***************************************************************************)
(* Verification model of the Prometheus Genesis pipeline                   *)
(* (src/prometheus/genesis_engine): schema extraction, scaffold load into  *)
(* the knowledge graph, selection, cost gate, enrichment, finalization,    *)
(* and the description synthesizer's response parsing.                     *)
(*                                                                         *)
(* Names.  A table name is a string; a node name is a sequence of tokens:  *)
(* <<t>> for the Table node of t and <<t, ".", c>> for the Column node of  *)
(* column c of t (loader.py builds it as t.name + '.' + column.name).      *)
(* The identifiers of the modelled databases contain no '.' themselves.    *)
(***************************************************************************)
EXTENDS Integers, Sequences, FiniteSets, TLC

VARIABLES
    graph,        \* the Neo4j knowledge graph
    clock,        \* source of timestamp() / identifies one update_node_enrichment call
    \* ---- direct use of SchemaLoader (SpecLoad)
    lastOp,       \* the latest SchemaLoader call
    prevOp,       \* the call before it
    before,       \* the graph as it was when the latest call started
    nOps,         \* number of SchemaLoader calls made
    \* ---- run_genesis (Spec)
    pc,           \* position inside run_genesis
    run,          \* number of run_genesis calls started
    params,       \* arguments and environment of the current run
    db_schema,    \* the extracted DatabaseSchema
    entities_to_process,
    queryFailed,  \* the is_enriched query of _get_entities_to_enrich raised
    gate,         \* the cost gate: requests made, the answer, the decision
    idx,          \* loop index of _execute_enrichment_phase
    outcome,      \* per target position: the result of each step made for the entity
    calls,        \* counters of external calls issued in this run
    scaffold,     \* the graph as load_schema left it in this run
    ended,        \* how the run ended
    \* ---- SchemaExtractor.extract_schema (SpecExtract)
    xpc, source, xi, xtables, xfailed, xresult,
    \* ---- DescriptionSynthesizer.synthesize (SpecSynth)
    spc, provider, parsed, sresult,
    \* ---- EmbeddingGenerator.generate (SpecEmbed)
    epc,          \* position inside generate
    etext,        \* the argument of generate
    eresponse,    \* what the embedding provider does with the request
    embedding_vector, \* what generate returned
    \* ---- the sampling step of run_genesis (SpecSample)
    kpc,          \* position inside the sampling step
    ktargets,     \* the target list the selection phase produced
    sample_size,  \* the sample_size argument of run_genesis
    rng,          \* state of the random module's generator
    sampled,      \* per run made so far: the list that will be processed
    \* ---- EnrichmentCostCalculator.estimate_cost (SpecCost)
    cpc,          \* position of the comparison of two estimates
    tokenizer,    \* "tiktoken", or "fallback" when get_encoding failed
    price,        \* price per input token and per output token
    cost_input,   \* all_entities and evidence_map given to estimate_cost
    cost_grown,   \* the same with one more entity or a longer evidence text
    cost_report,  \* the reports estimate_cost returned for the two
    \* ---- RelationCostCalculator.track_call under concurrent callers (SpecTrack)
    tracker,      \* the three totals of the RelationCostCalculator
    wpc,          \* per worker: position inside track_call
    wargs,        \* per worker: prompt_tokens and completion_tokens passed
    wtmp,         \* per worker: the total it loaded and has not yet stored back
    \* ---- SmartDataProfilerAnalyzer.analyze (SpecProfile)
    ppc,          \* position inside analyze
    pcontext,     \* the node, the column's data, and the queries that fail
    plocals,      \* is_likely_categorical, random_samples, distinct_values
    queried,      \* the queries sent to the relational database so far
    presult,      \* what analyze returned
    \* ---- ImplicitRelationFinder.find_and_create_relations (SpecRelations)
    rpc,          \* position inside find_and_create_relations
    rinput,       \* the Table nodes' state in the graph and the call's parameters
    rsource,      \* index of the source Table node being processed
    rcandidates,  \* the candidates of the current source still to be verified
    rjudged,      \* the pairs a verification judgment was requested for
    rimplicit,    \* the IMPLICIT_RELATION_TO edges of the graph
    rcalls,       \* verification calls recorded by the cost tracker
    \* ---- PostgresConnector and Neo4jConnector (SpecConnect, and the pipeline)
    connectors,   \* the engine of the one, the driver of the other
    conn_last,    \* the latest connector call and how it ended
    conn_since,   \* a Neo4j connect() completed and no disconnect() followed
    conn_ops,     \* number of connector calls made
    \* ---- the relational source database
    relational    \* its state: what DDL and DML statements have made of it

loadVars == <<lastOp, prevOp, before, nOps>>
runVars == <<pc, run, params, db_schema, entities_to_process, queryFailed, gate,
             idx, outcome, calls, scaffold, ended>>
extractVars == <<xpc, source, xi, xtables, xfailed, xresult>>
synthVars == <<spc, provider, parsed, sresult>>
embedVars == <<epc, etext, eresponse, embedding_vector>>
\* the variables of the specifications of single components
sampleVars == <<kpc, ktargets, sample_size, rng, sampled>>
costVars == <<cpc, tokenizer, price, cost_input, cost_grown, cost_report>>
trackVars == <<tracker, wpc, wargs, wtmp>>
profileVars == <<ppc, pcontext, plocals, queried, presult>>
relationVars == <<rpc, rinput, rsource, rcandidates, rjudged, rimplicit, rcalls>>
connHistVars == <<conn_last, conn_since, conn_ops>>
connVars == <<connectors, connHistVars>>
workVars == <<embedVars, sampleVars, costVars, trackVars, profileVars, relationVars,
              connHistVars>>
unitVars == <<workVars, connectors>>
notEmbedVars == <<sampleVars, costVars, trackVars, profileVars, relationVars, connVars>>
notSampleVars == <<embedVars, costVars, trackVars, profileVars, relationVars, connVars>>
notCostVars == <<embedVars, sampleVars, trackVars, profileVars, relationVars, connVars>>
notTrackVars == <<embedVars, sampleVars, costVars, profileVars, relationVars, connVars>>
notProfileVars == <<embedVars, sampleVars, costVars, trackVars, relationVars, connVars>>
notRelationVars == <<embedVars, sampleVars, costVars, trackVars, profileVars, connVars>>
notConnVars == <<embedVars, sampleVars, costVars, trackVars, profileVars, relationVars>>
vars == <<graph, clock, loadVars, runVars, extractVars, synthVars, unitVars, relational>>

None == "None"

(***************************************************************************)
(* Bounds of the model.                                                    *)
(***************************************************************************)
MaxOps == 3        \* SchemaLoader calls in SpecLoad
MaxRuns == 2       \* run_genesis calls in Spec
MaxResponseLen == 4 \* tokens of a provider response in SpecSynth
MaxFks == 2        \* foreign keys per table in SpecExtract
MaxTextLen == 2    \* characters of the text given to generate in SpecEmbed
MaxTargets == 3    \* entities of the target list in SpecSample
MaxSampleRuns == 2 \* runs over the same target list in SpecSample
MaxEvidenceLen == 3 \* characters of an entity's evidence text in SpecCost
MaxPrice == 2      \* price per token, in tenths of a cent, in SpecCost
MaxWorkers == 2    \* concurrent callers of track_call in SpecTrack
MaxTokens == 2     \* token counts passed to track_call in SpecTrack

(***************************************************************************)
(* Small helpers.                                                          *)
(***************************************************************************)
Range(s) == {s[k] : k \in 1..Len(s)}

RECURSIVE SeqFilter(_, _)
\* the subsequence of s whose elements are in keep, order preserved
SeqFilter(s, keep) ==
    IF s = <<>> THEN <<>>
    ELSE IF Head(s) \in keep THEN <<Head(s)>> \o SeqFilter(Tail(s), keep)
         ELSE SeqFilter(Tail(s), keep)

RECURSIVE Flatten(_)
Flatten(ss) == IF ss = <<>> THEN <<>> ELSE Head(ss) \o Flatten(Tail(ss))

(***************************************************************************)
(* models.py: ForeignKeySchema, TableSchema, DatabaseSchema.               *)
(***************************************************************************)
ForeignKeySchema(cols, rtable, rcols, ondel) ==
    [constrained_columns |-> cols, referred_table |-> rtable,
     referred_columns |-> rcols, on_update |-> None, on_delete |-> ondel]

\* extractor.py 78-94: the junction-table heuristic
MutIsJunctionOneFk(columns, primary_key, foreign_keys) ==
    LET fk_column_names == UNION {Range(foreign_keys[k].constrained_columns) :
                                    k \in 1..Len(foreign_keys)}
        non_pk_columns == Range(columns) \ Range(primary_key)
    IN  /\ Len(foreign_keys) >= 1
        /\ primary_key # <<>>
        /\ Range(primary_key) \subseteq fk_column_names
        /\ non_pk_columns \ fk_column_names = {}

IsJunction(columns, primary_key, foreign_keys) ==
    LET fk_column_names == UNION {Range(foreign_keys[k].constrained_columns) :
                                    k \in 1..Len(foreign_keys)}
        non_pk_columns == Range(columns) \ Range(primary_key)
    IN  /\ Len(foreign_keys) >= 2
        /\ primary_key # <<>>
        /\ Range(primary_key) \subseteq fk_column_names
        /\ non_pk_columns \ fk_column_names = {}

\* extractor.py 96-108: the TableSchema built for one table
TableSchema(name, columns, primary_key, foreign_keys) ==
    [table_name |-> name, columns |-> columns, primary_key |-> primary_key,
     foreign_keys |-> foreign_keys,
     is_junction_table |-> IsJunction(columns, primary_key, foreign_keys)]

(***************************************************************************)
(* The databases the pipeline is run against: table a(id), and table b in  *)
(* three shapes (one foreign key to a; two foreign keys to a forming the   *)
(* whole primary key; absent).                                             *)
(***************************************************************************)
TableNames == {"a", "b"}

TblA == TableSchema("a", <<"id">>, <<"id">>, <<>>)
TblB1 == TableSchema("b", <<"x">>, <<>>,
            <<ForeignKeySchema(<<"x">>, "a", <<"id">>, "CASCADE")>>)
TblB2 == TableSchema("b", <<"x", "y">>, <<"x", "y">>,
            <<ForeignKeySchema(<<"x">>, "a", <<"id">>, "CASCADE"),
              ForeignKeySchema(<<"y">>, "a", <<"id">>, None)>>)

\* b with one foreign key to a and one to a table z that no schema holds
TblB3 == TableSchema("b", <<"x", "y">>, <<>>,
            <<ForeignKeySchema(<<"y">>, "z", <<"id">>, None),
              ForeignKeySchema(<<"x">>, "a", <<"id">>, "CASCADE")>>)

Schemas == {<<TblA>>, <<TblA, TblB1>>, <<TblA, TblB2>>, <<TblB1>>, <<TblA, TblB3>>}

TableNode(t) == <<t>>
ColumnNode(t, c) == <<t, ".", c>>
\* Cypher: c.name STARTS WITH t.name + '.'
StartsWithTable(cname, t) == Len(cname) >= 2 /\ cname[1] = t /\ cname[2] = "."

ColumnNodeNames == {ColumnNode("a", "id"), ColumnNode("b", "x"), ColumnNode("b", "y")}
TableNodeNames == {TableNode(t) : t \in TableNames}
NodeNames == TableNodeNames \cup ColumnNodeNames

SchemaTables(s) == {s[k].table_name : k \in 1..Len(s)}
SchemaColumns(s) ==
    UNION {{ColumnNode(s[k].table_name, c) : c \in Range(s[k].columns)} : k \in 1..Len(s)}

(***************************************************************************)
(* The knowledge graph.  Nodes are kept as counts per (label, name), edges *)
(* as counts per endpoint pair, so that a MERGE that created a duplicate   *)
(* would show.  enr[n] holds, for each property written by enrichment, the *)
(* stamp of the update_node_enrichment call that wrote it (0: absent).     *)
(***************************************************************************)
EnrichmentProps == {"core_description", "stereotype", "confidence", "embedding",
                    "is_enriched", "last_enriched_at"}
NotEnriched == [p \in EnrichmentProps |-> 0]
NoFkProps == [constrained_columns |-> <<>>, referred_columns |-> <<>>,
              on_update |-> None, on_delete |-> None]
TablePairs == TableNames \X TableNames

EmptyGraph ==
    [tableCount |-> [t \in TableNames |-> 0],
     columnCount |-> [c \in ColumnNodeNames |-> 0],
     junction |-> {},
     hasColumn |-> [p \in TableNames \X ColumnNodeNames |-> 0],
     fk |-> [p \in TablePairs |-> 0],
     fkProps |-> [p \in TablePairs |-> NoFkProps],
     enr |-> [n \in NodeNames |-> NotEnriched],
     implicit |-> {}]

\* the structural part of a graph: Table and Column nodes, HAS_COLUMN and
\* EXPLICIT_FK_TO edges
Structure(g) == <<g.tableCount, g.columnCount, g.hasColumn, g.fk>>

\* loader.py 25-30: MATCH (n) DETACH DELETE n
ClearDatabase(g) == EmptyGraph

\* Cypher MERGE: creates the pattern only when nothing matches it
MutMergeAsCreate(count) == count + 1

Merge(count) == IF count = 0 THEN 1 ELSE count

MutCreateAllNodesResets(g, s) ==
    [g EXCEPT
       !.tableCount = [t \in TableNames |->
                         IF t \in SchemaTables(s) THEN Merge(g.tableCount[t])
                         ELSE g.tableCount[t]],
       !.junction = g.junction \cup
                      {s[k].table_name : k \in {j \in 1..Len(s) : s[j].is_junction_table}},
       !.columnCount = [c \in ColumnNodeNames |->
                          IF c \in SchemaColumns(s) THEN Merge(g.columnCount[c])
                          ELSE g.columnCount[c]],
       !.enr = [n \in NodeNames |->
                  IF n \in SchemaColumns(s) \cup {TableNode(x) : x \in SchemaTables(s)}
                  THEN NotEnriched ELSE g.enr[n]]]

\* loader.py 63-92: MERGE every Table and Column node of the schema; the
\* JunctionTable label is added when is_junction_table, never removed
CreateAllNodes(g, s) ==
    [g EXCEPT
       !.tableCount = [t \in TableNames |->
                         IF t \in SchemaTables(s) THEN Merge(g.tableCount[t])
                         ELSE g.tableCount[t]],
       !.junction = g.junction \cup
                      {s[k].table_name : k \in {j \in 1..Len(s) : s[j].is_junction_table}},
       !.columnCount = [c \in ColumnNodeNames |->
                          IF c \in SchemaColumns(s) THEN Merge(g.columnCount[c])
                          ELSE g.columnCount[c]]]

\* loader.py 94-102: MERGE (t)-[:HAS_COLUMN]->(c) for every Table / Column pair
\* of the graph with c.name STARTS WITH t.name + '.'
CreateHasColumnRelationships(g) ==
    [g EXCEPT
       !.hasColumn = [p \in TableNames \X ColumnNodeNames |->
                        IF /\ g.tableCount[p[1]] > 0
                           /\ g.columnCount[p[2]] > 0
                           /\ StartsWithTable(p[2], p[1])
                        THEN Merge(g.hasColumn[p])
                        ELSE g.hasColumn[p]]]

\* loader.py 108, 111-114: one row per (table with foreign keys, foreign key)
FkRows(s) ==
    Flatten([k \in 1..Len(s) |->
               [j \in 1..Len(s[k].foreign_keys) |->
                  [source |-> s[k].table_name, fk |-> s[k].foreign_keys[j]]]])

RECURSIVE MergeFkRows(_, _)
\* loader.py 112-125: both endpoints are MATCHed in the graph; the edge is
\* MERGEd on its endpoints alone; ON CREATE sets the four properties, ON MATCH
\* only on_update and on_delete
MergeFkRows(g, rows) ==
    IF rows = <<>> THEN g
    ELSE LET r == Head(rows)
             p == <<r.source, r.fk.referred_table>>
         IN  IF \/ r.fk.referred_table \notin TableNames
                \/ g.tableCount[r.source] = 0
                \/ g.tableCount[r.fk.referred_table] = 0
             THEN MergeFkRows(g, Tail(rows))
             ELSE IF g.fk[p] = 0
                  THEN MergeFkRows(
                         [g EXCEPT !.fk[p] = Merge(g.fk[p]),
                                   !.fkProps[p] =
                                      [constrained_columns |-> r.fk.constrained_columns,
                                       referred_columns |-> r.fk.referred_columns,
                                       on_update |-> r.fk.on_update,
                                       on_delete |-> r.fk.on_delete]],
                         Tail(rows))
                  ELSE MergeFkRows(
                         [g EXCEPT !.fkProps[p].on_update = r.fk.on_update,
                                   !.fkProps[p].on_delete = r.fk.on_delete],
                         Tail(rows))

MutFkAllOrNothing(g, s) ==
    IF \A k \in 1..Len(FkRows(s)) :
          /\ FkRows(s)[k].fk.referred_table \in TableNames
          /\ g.tableCount[FkRows(s)[k].fk.referred_table] > 0
    THEN MergeFkRows(g, FkRows(s)) ELSE g

\* loader.py 104-128
CreateFkRelationships(g, s) == MergeFkRows(g, FkRows(s))

\* loader.py 32-61: load_schema.  failAt names the query that raises ("none":
\* no query raises); each query is its own auto-commit transaction, so the
\* queries before the failing one keep their effect.
LoadFailurePoints == {"none", "clear", "nodes", "has_column", "fk"}

LoadSchemaGraph(g, s, clean_db, failAt) ==
    LET g0 == IF clean_db /\ failAt # "clear" THEN ClearDatabase(g) ELSE g
        g1 == IF failAt \in {"clear", "nodes"} THEN g0 ELSE CreateAllNodes(g0, s)
        g2 == IF failAt \in {"clear", "nodes", "has_column"} THEN g1
              ELSE CreateHasColumnRelationships(g1)
        g3 == IF failAt # "none" THEN g2 ELSE CreateFkRelationships(g2, s)
    IN  g3

\* whether the graph holds a node of that label and name
NodeExists(g, node_type, node_name) ==
    \/ node_type = "Table" /\ node_name \in TableNodeNames
                           /\ g.tableCount[node_name[1]] > 0
    \/ node_type = "Column" /\ node_name \in ColumnNodeNames
                            /\ g.columnCount[node_name] > 0

\* loader.py 144-159: the single SET statement of update_node_enrichment, run
\* in one auto-commit transaction: all its properties are written, or (the
\* query raised) none
UpdateResults == {"ok", "neo4j_error", "driver_error"}

MutEnrichmentWritePartial(old, stamp, result) ==
    IF result = "ok" THEN [p \in EnrichmentProps |-> stamp]
    ELSE [old EXCEPT !["core_description"] = stamp, !["stereotype"] = stamp,
                     !["confidence"] = stamp]

EnrichmentWrite(old, stamp, result) ==
    IF result = "ok" THEN [p \in EnrichmentProps |-> stamp] ELSE old

MutUpdateMarksOnError(g, node_type, node_name, stamp, result) ==
    IF NodeExists(g, node_type, node_name)
    THEN [g EXCEPT !.enr[node_name] = [p \in EnrichmentProps |-> stamp]]
    ELSE g

UpdateNodeEnrichmentGraph(g, node_type, node_name, stamp, result) ==
    IF NodeExists(g, node_type, node_name)
    THEN [g EXCEPT !.enr[node_name] = EnrichmentWrite(g.enr[node_name], stamp, result)]
    ELSE g

\* the ImplicitRelation judgments the verification may yield (models.py 48-57)
Judgments ==
    { [relationship_exists |-> TRUE, confidence_score |-> 90, relationship_type |-> "",
       justification |-> "j1"],
      [relationship_exists |-> TRUE, confidence_score |-> 90,
       relationship_type |-> "SHARES_KEY", justification |-> "j2"],
      [relationship_exists |-> TRUE, confidence_score |-> 80, relationship_type |-> "",
       justification |-> "j3"],
      [relationship_exists |-> FALSE, confidence_score |-> 90, relationship_type |-> "",
       justification |-> "j4"] }

\* the edge create_implicit_relation writes for a judgment
ImplicitEdge(node, target, details) ==
    [source |-> node, target |-> target,
     type |-> IF details.relationship_type = "" THEN "RELATED_TO"
              ELSE details.relationship_type,
     llm_justification |-> details.justification,
     llm_confidence |-> details.confidence_score]

MutImplicitCreate(edges, node, target, details) ==
    edges \cup {ImplicitEdge(node, target, details)}

\* loader.py 196-216: MERGE of the one IMPLICIT_RELATION_TO edge of the pair,
\* then SET of its three properties, with the generic type when the judgment
\* names none
CreateImplicitRelation(edges, node, target, details) ==
    { e \in edges : ~(e.source = node /\ e.target = target) } \cup
    {ImplicitEdge(node, target, details)}

\* loader.py 198-200, 208-216: both Table nodes are MATCHed first; the query
\* is one auto-commit transaction, and a Neo4jError is swallowed
CreateImplicitRelationGraph(g, node, target, details, result) ==
    IF /\ result = "ok"
       /\ NodeExists(g, "Table", TableNode(node))
       /\ NodeExists(g, "Table", TableNode(target))
    THEN [g EXCEPT !.implicit = CreateImplicitRelation(g.implicit, node, target, details)]
    ELSE g

\* orchestrator.py 224: MATCH (n) WHERE n.is_enriched = true RETURN n.name
EnrichedNodeNames(g) == {n \in NodeNames : g.enr[n]["is_enriched"] # 0}

(***************************************************************************)
(* Values of the variables a specification does not use.                   *)
(***************************************************************************)
NoRelationCall == [source |-> "", target |-> "", details |-> <<>>, result |-> ""]
NoOp == [op |-> "none", schema |-> <<>>, clean_db |-> FALSE, ok |-> TRUE,
         relation |-> NoRelationCall]
NoParams == [clean_db |-> FALSE, force_rerun_enrichment |-> FALSE,
             auto_confirm |-> FALSE]
NoGate == [requests |-> 0, outcome |-> "none", answer |-> "", proceed |-> FALSE]
NoCalls == [synth |-> 0, embed |-> 0, update |-> 0, index |-> 0, relations |-> 0,
            report |-> 0, successful_enrichments |-> 0]

LoadIdle == lastOp = NoOp /\ prevOp = NoOp /\ before = EmptyGraph /\ nOps = 0
RunIdle ==
    /\ pc = "idle" /\ run = 0 /\ params = NoParams /\ db_schema = <<>>
    /\ entities_to_process = <<>> /\ queryFailed = FALSE /\ gate = NoGate
    /\ idx = 0 /\ outcome = <<>> /\ calls = NoCalls
    /\ scaffold = EmptyGraph /\ ended = "none"
ExtractIdle ==
    /\ xpc = "idle" /\ source = <<>> /\ xi = 0 /\ xtables = <<>>
    /\ xfailed = {} /\ xresult = <<>>
SynthIdle ==
    /\ spc = "idle" /\ provider = [raises |-> FALSE, text |-> <<>>]
    /\ parsed = <<>> /\ sresult = [raised |-> FALSE, value |-> None]
EmbedIdle ==
    /\ epc = "idle" /\ etext = [is_str |-> TRUE, len |-> 0]
    /\ eresponse = [raises |-> FALSE, shape |-> "neither", len |-> 0]
    /\ embedding_vector = [raised |-> FALSE, vec |-> -1]
SampleIdle ==
    /\ kpc = "idle" /\ ktargets = <<>> /\ sample_size = [given |-> FALSE, value |-> 0]
    /\ rng = "fresh" /\ sampled = <<>>
CostIdle ==
    /\ cpc = "idle" /\ tokenizer = "tiktoken" /\ price = [input |-> 0, output |-> 0]
    /\ cost_input = [all_entities |-> <<>>, evidence_map |-> <<>>]
    /\ cost_grown = [all_entities |-> <<>>, evidence_map |-> <<>>]
    /\ cost_report = <<>>
TrackIdle ==
    /\ tracker = [total_prompt_tokens |-> 0, total_completion_tokens |-> 0,
                  total_verification_calls |-> 0]
    /\ wpc = <<>> /\ wargs = <<>> /\ wtmp = <<>>
\* the relational source as the pipeline finds it
RelationalAtStart == [schema_changes |-> 0, row_changes |-> 0]

\* analyze returns None, a list (the [] of _fetch_random_samples) or an
\* EvidenceChunk; a chunk is kept by the lines of its content
NoChunk == [kind |-> "None", sample_values |-> 0, cardinality_type |-> "",
            distinct_values |-> <<>>, empty_note |-> FALSE]
NoLocals == [is_likely_categorical |-> FALSE, random_samples |-> 0, distinct_values |-> <<>>]
ProfileIdle ==
    /\ ppc = "idle"
    /\ pcontext = [node_type |-> "Table", total_rows |-> 0, distinct_count |-> 0,
                   nonnull_rows |-> 0, failing |-> {}]
    /\ plocals = NoLocals /\ queried = {} /\ presult = NoChunk
NoRelationInput == [enriched |-> {}, fk |-> {}, similarity |-> <<>>, top_k |-> 0,
                    min_similarity_score |-> 0, min_llm_confidence |-> 0]
RelationIdle ==
    /\ rpc = "idle" /\ rinput = NoRelationInput /\ rsource = 0
    /\ rcandidates = {} /\ rjudged = {} /\ rimplicit = {} /\ rcalls = 0
\* both connectors as their constructors leave them: no engine, no driver
Disconnected == [engine |-> "None", driver |-> "None"]
NoConnCall == [op |-> "none", result |-> "none", attempted |-> FALSE]
ConnIdle ==
    /\ connectors = Disconnected /\ conn_last = NoConnCall
    /\ conn_since = FALSE /\ conn_ops = 0
\* how the driver library answers one connection attempt: GraphDatabase.driver
\* raises, or it returns a driver whose verify_connectivity raises, or both succeed
Neo4jOutcomes == {"ok", "driver_raises", "verify_raises"}
\* how create_engine answers (it opens no connection: it succeeds or raises)
PostgresOutcomes == {"ok", "raises"}

\* Neo4jConnector.connect (neo4j_connector.py 24-38): a connector that holds a
\* driver returns at once; otherwise self.driver is assigned as soon as the driver
\* is created, before verify_connectivity, and the except clause re-raises without
\* touching it
Neo4jConnect(driver, answer) ==
    IF driver # "None"
    THEN [driver |-> driver, raised |-> FALSE, attempted |-> FALSE]
    ELSE CASE answer = "driver_raises" ->
                [driver |-> "None", raised |-> TRUE, attempted |-> TRUE]
           [] answer = "verify_raises" ->
                [driver |-> "unverified", raised |-> TRUE, attempted |-> TRUE]
           [] OTHER ->
                [driver |-> "verified", raised |-> FALSE, attempted |-> TRUE]

\* Neo4jConnector.disconnect (neo4j_connector.py 40-47): closes and drops the driver
Neo4jDisconnect(driver) == "None"

\* Neo4jConnector.get_session (neo4j_connector.py 49-64)
Neo4jGetSession(driver) == IF driver = "None" THEN "ConnectionError" ELSE "session"

\* PostgresConnector.connect (postgres_connector.py 24-41): self.engine is assigned
\* by the statement that can raise, so a failure leaves it None
PostgresConnect(engine, answer) ==
    IF engine # "None"
    THEN [engine |-> engine, raised |-> FALSE, attempted |-> FALSE]
    ELSE IF answer = "raises"
         THEN [engine |-> "None", raised |-> TRUE, attempted |-> TRUE]
         ELSE [engine |-> "open", raised |-> FALSE, attempted |-> TRUE]

\* PostgresConnector.disconnect (postgres_connector.py 43-51)
PostgresDisconnect(engine) == "None"

\* PostgresConnector.get_inspector (postgres_connector.py 53-69)
PostgresGetInspector(engine) == IF engine = "None" THEN "ConnectionError" ELSE "inspector"

\* orchestrator.py 79, `with self.pg_connector, self.neo4j_connector:` the
\* relational connector is entered first, then the graph connector; an __enter__
\* that raises runs the __exit__ of the connectors entered before it, and not
\* its own
EnterConnectors(c, pgAnswer, neoAnswer) ==
    LET p == PostgresConnect(c.engine, pgAnswer) IN
    IF p.raised
    THEN [connectors |-> [c EXCEPT !.engine = p.engine], entered |-> FALSE]
    ELSE LET n == Neo4jConnect(c.driver, neoAnswer) IN
         IF n.raised
         THEN [connectors |-> [engine |-> PostgresDisconnect(p.engine),
                               driver |-> n.driver],
               entered |-> FALSE]
         ELSE [connectors |-> [engine |-> p.engine, driver |-> n.driver],
               entered |-> TRUE]

\* leaving the with block, by its end, a return or an exception: both __exit__ run
ExitConnectors(c) ==
    [engine |-> PostgresDisconnect(c.engine), driver |-> Neo4jDisconnect(c.driver)]

UnitIdle ==
    /\ EmbedIdle /\ SampleIdle /\ CostIdle /\ TrackIdle /\ ProfileIdle /\ RelationIdle
    /\ ConnIdle

(***************************************************************************)
(* SpecLoad: SchemaLoader used directly, any sequence of calls on a graph  *)
(* that starts empty.                                                      *)
(***************************************************************************)
Entities(s) ==
    Flatten([k \in 1..Len(s) |->
               <<[type |-> "Table", name |-> TableNode(s[k].table_name)]>> \o
               [j \in 1..Len(s[k].columns) |->
                  [type |-> "Column",
                   name |-> ColumnNode(s[k].table_name, s[k].columns[j])]]])

AllEntities == UNION {Range(Entities(s)) : s \in Schemas}

InitLoad ==
    /\ graph = EmptyGraph /\ clock = 0
    /\ relational = RelationalAtStart
    /\ LoadIdle /\ RunIdle /\ ExtractIdle /\ SynthIdle
    /\ UnitIdle

\* loader.py 32-61
CallLoadSchema ==
    /\ nOps < MaxOps
    /\ \E s \in Schemas, clean \in BOOLEAN, failAt \in LoadFailurePoints :
         /\ failAt = "clear" => clean
         /\ graph' = LoadSchemaGraph(graph, s, clean, failAt)
         /\ lastOp' = [op |-> "load_schema", schema |-> s, clean_db |-> clean,
                       ok |-> failAt = "none", relation |-> NoRelationCall]
    /\ prevOp' = lastOp
    /\ before' = graph
    /\ nOps' = nOps + 1
    /\ UNCHANGED <<clock, runVars, extractVars, synthVars>>
    /\ UNCHANGED <<unitVars, relational>>

\* loader.py 130-159; only a Neo4jError is caught there
CallUpdateNodeEnrichment ==
    /\ nOps < MaxOps
    /\ \E e \in AllEntities, result \in UpdateResults :
         /\ graph' = UpdateNodeEnrichmentGraph(graph, e.type, e.name, clock + 1, result)
         /\ lastOp' = [op |-> "update_node_enrichment", schema |-> <<>>,
                       clean_db |-> FALSE, ok |-> result # "driver_error",
                       relation |-> NoRelationCall]
    /\ clock' = clock + 1
    /\ prevOp' = lastOp
    /\ before' = graph
    /\ nOps' = nOps + 1
    /\ UNCHANGED <<runVars, extractVars, synthVars>>
    /\ UNCHANGED <<unitVars, relational>>

\* loader.py 196-216; only a Neo4jError is caught there
CallCreateImplicitRelation ==
    /\ nOps < MaxOps
    /\ \E node \in TableNames, target \in TableNames, details \in Judgments,
          result \in UpdateResults :
         /\ graph' = CreateImplicitRelationGraph(graph, node, target, details, result)
         /\ lastOp' = [op |-> "create_implicit_relation", schema |-> <<>>,
                       clean_db |-> FALSE, ok |-> result # "driver_error",
                       relation |-> [source |-> node, target |-> target,
                                     details |-> details, result |-> result]]
    /\ prevOp' = lastOp
    /\ before' = graph
    /\ nOps' = nOps + 1
    /\ UNCHANGED <<clock, runVars, extractVars, synthVars>>
    /\ UNCHANGED <<unitVars, relational>>

NextLoad == CallLoadSchema \/ CallUpdateNodeEnrichment \/ CallCreateImplicitRelation

SpecLoad == InitLoad /\ [][NextLoad]_vars

\* C5: after load_schema(s, clean_db=false) has completed twice in succession
\* with the same schema s, the Table nodes, Column nodes, HAS_COLUMN edges and
\* EXPLICIT_FK_TO edges are those the first call left: the second call created
\* no node and no edge.
LoadedTwice ==
    /\ lastOp.op = "load_schema" /\ lastOp.ok /\ ~lastOp.clean_db
    /\ prevOp.op = "load_schema" /\ prevOp.ok /\ ~prevOp.clean_db
    /\ prevOp.schema = lastOp.schema

C5_IdempotentLoad == LoadedTwice => Structure(graph) = Structure(before)

C5_Witness ==
    /\ LoadedTwice
    /\ lastOp.schema = <<TblA, TblB2>>
    /\ graph.fk[<<"b", "a">>] = 1
    /\ graph.hasColumn[<<"b", ColumnNode("b", "y")>>] = 1

\* the last call was a load_schema that completed
LoadCompleted == lastOp.op = "load_schema" /\ lastOp.ok
\* whether the graph holds a Table node of that name
HasTableNode(g, t) == t \in TableNames /\ g.tableCount[t] > 0
\* the EXPLICIT_FK_TO edges from table src to table dst
FkEdges(g, src, dst) == IF <<src, dst>> \in TablePairs THEN g.fk[<<src, dst>>] ELSE 0

\* C21 as stated: a foreign key whose referred table is not among the tables
\* of the loaded schema gets no EXPLICIT_FK_TO edge, and every other foreign
\* key of the schema has its edge.
C21_AbsentTargetAsClaimed ==
    LoadCompleted =>
      \A k \in 1..Len(FkRows(lastOp.schema)) :
         LET r == FkRows(lastOp.schema)[k]
         IN  IF r.fk.referred_table \notin SchemaTables(lastOp.schema)
               THEN FkEdges(graph, r.source, r.fk.referred_table) =
                      FkEdges(IF lastOp.clean_db THEN EmptyGraph ELSE before,
                              r.source, r.fk.referred_table)
               ELSE FkEdges(graph, r.source, r.fk.referred_table) >= 1

\* C21: a foreign key whose referred table has no Table node in the graph
\* (it is not in the loaded schema and was not left by an earlier load) gets
\* no EXPLICIT_FK_TO edge, the load raises no error, and every other foreign
\* key of the schema has its edge.
C21_AbsentTarget ==
    LoadCompleted =>
      \A k \in 1..Len(FkRows(lastOp.schema)) :
         LET r == FkRows(lastOp.schema)[k]
         IN  IF ~HasTableNode(graph, r.fk.referred_table)
               THEN FkEdges(graph, r.source, r.fk.referred_table) = 0
               ELSE FkEdges(graph, r.source, r.fk.referred_table) >= 1

\* b's foreign key to the absent z left no edge, its foreign key to a did
C21_Witness ==
    /\ LoadCompleted /\ lastOp.schema = <<TblA, TblB3>>
    /\ ~HasTableNode(graph, "z")
    /\ graph.fk[<<"b", "a">>] = 1
    /\ graph.fkProps[<<"b", "a">>].constrained_columns = <<"x">>

\* the last call was a create_implicit_relation that returned
ImplicitCall == lastOp.op = "create_implicit_relation" /\ lastOp.ok
SamePair(e, src, dst) == e.source = src /\ e.target = dst
\* the call found both Table nodes and its query did not fail
ImplicitCallWrote ==
    /\ lastOp.relation.result = "ok"
    /\ HasTableNode(before, lastOp.relation.source)
    /\ HasTableNode(before, lastOp.relation.target)

\* C22: there is at most one IMPLICIT_RELATION_TO edge per ordered pair of
\* existing Table nodes; after a create_implicit_relation call the edge of
\* its pair runs source to target and carries the call's justification and
\* confidence and the judgment's type, or RELATED_TO when it gives none; the
\* call creates no node and no other edge (none in the reverse direction),
\* and nothing at all when a Table node is missing.
C22_ImplicitMerge ==
    /\ \A e1, e2 \in graph.implicit :
          SamePair(e1, e2.source, e2.target) => e1 = e2
    /\ \A e \in graph.implicit :
          HasTableNode(graph, e.source) /\ HasTableNode(graph, e.target)
    /\ ImplicitCall =>
          LET c == lastOp.relation
          IN  /\ Structure(graph) = Structure(before)
              /\ graph.enr = before.enr /\ graph.junction = before.junction
              /\ {e \in graph.implicit : ~SamePair(e, c.source, c.target)} =
                 {e \in before.implicit : ~SamePair(e, c.source, c.target)}
              /\ IF ImplicitCallWrote
                   THEN \E e \in graph.implicit :
                          /\ SamePair(e, c.source, c.target)
                          /\ e.llm_justification = c.details.justification
                          /\ e.llm_confidence = c.details.confidence_score
                          /\ e.type = IF c.details.relationship_type = ""
                                        THEN "RELATED_TO"
                                        ELSE c.details.relationship_type
                   ELSE graph = before

\* a second call for the pair a -> b replaced the properties of its edge
C22_Witness ==
    /\ ImplicitCall /\ ImplicitCallWrote
    /\ lastOp.relation.source = "a" /\ lastOp.relation.target = "b"
    /\ \E e \in before.implicit : SamePair(e, "a", "b") /\ e.llm_confidence = 90
    /\ \E e \in graph.implicit :
          SamePair(e, "a", "b") /\ e.llm_confidence = 80 /\ e.type = "RELATED_TO"
    /\ Cardinality(graph.implicit) = 1

\* graph_analyzer.py 65-91: the fk_to clues of a Column node, as
\* <<target table, target column>>: the EXPLICIT_FK_TO edges leaving its table
\* whose constrained_columns hold the column, resolved by position
IndexOf(s, x) == CHOOSE i \in 1..Len(s) : s[i] = x /\ \A j \in 1..(i - 1) : s[j] # x
AnalyzeColumn(g, table_name, column_name) ==
    { <<target, IF IndexOf(g.fkProps[<<table_name, target>>].constrained_columns, column_name)
                     \in DOMAIN g.fkProps[<<table_name, target>>].referred_columns
                  THEN g.fkProps[<<table_name, target>>].referred_columns[
                         IndexOf(g.fkProps[<<table_name, target>>].constrained_columns,
                                 column_name)]
                  ELSE "">> :
        target \in { x \in TableNames :
                       /\ g.fk[<<table_name, x>>] > 0
                       /\ column_name \in
                            Range(g.fkProps[<<table_name, x>>].constrained_columns) } }

\* C25: after a completed load_schema(schema, clean_db = true), every foreign
\* key of the schema whose referred table is in the schema has an
\* EXPLICIT_FK_TO edge from its table to the referred table carrying that
\* foreign key's constrained_columns, referred_columns, on_update and
\* on_delete, and the graph analyzer resolves each of its columns to the
\* referred table and column.
C25_FksMirrored ==
    (LoadCompleted /\ lastOp.clean_db) =>
      \A k \in 1..Len(FkRows(lastOp.schema)) :
         LET r == FkRows(lastOp.schema)[k]
             p == <<r.source, r.fk.referred_table>>
         IN  r.fk.referred_table \in SchemaTables(lastOp.schema) =>
               /\ graph.fk[p] >= 1
               /\ graph.fkProps[p].constrained_columns = r.fk.constrained_columns
               /\ graph.fkProps[p].referred_columns = r.fk.referred_columns
               /\ graph.fkProps[p].on_update = r.fk.on_update
               /\ graph.fkProps[p].on_delete = r.fk.on_delete
               /\ \A i \in 1..Len(r.fk.constrained_columns) :
                     <<r.fk.referred_table, r.fk.referred_columns[i]>> \in
                        AnalyzeColumn(graph, r.source, r.fk.constrained_columns[i])

\* nothing that g held is missing from h: no node, no edge
NothingDeleted(g, h) ==
    /\ \A x \in TableNames : h.tableCount[x] >= g.tableCount[x]
    /\ \A c \in ColumnNodeNames : h.columnCount[c] >= g.columnCount[c]
    /\ \A q \in TableNames \X ColumnNodeNames : h.hasColumn[q] >= g.hasColumn[q]
    /\ \A q \in TablePairs : h.fk[q] >= g.fk[q]
    /\ \A e \in g.implicit : \E f \in h.implicit : SamePair(f, e.source, e.target)

\* C27: a load_schema call with clean_db = false, completed or not, deletes
\* no node and no edge, leaves every enrichment property of every node as it
\* was and leaves the IMPLICIT_RELATION_TO edges as they were; only a
\* load_schema call with clean_db = true removes anything.
C27_ReloadPreserves ==
    /\ (lastOp.op = "load_schema" /\ ~lastOp.clean_db) =>
          /\ NothingDeleted(before, graph)
          /\ graph.enr = before.enr
          /\ graph.implicit = before.implicit
    /\ ~NothingDeleted(before, graph) => (lastOp.op = "load_schema" /\ lastOp.clean_db)

\* a was enriched, then the schema was loaded again with clean_db = false and
\* with a new table b: a keeps its enrichment, b and its edge were created
C27_Witness ==
    /\ LoadCompleted /\ ~lastOp.clean_db
    /\ before.enr[TableNode("a")]["is_enriched"] # 0
    /\ graph.enr[TableNode("a")] = before.enr[TableNode("a")]
    /\ before.tableCount["b"] = 0 /\ graph.tableCount["b"] = 1
    /\ graph.fk[<<"b", "a">>] = 1

\* C28: after every completed load_schema call, with clean_db true or false
\* and whatever was loaded before, a Table node of the loaded schema carries
\* the JunctionTable label if and only if is_junction_table is true for that
\* table in the schema just loaded.
C28_JunctionLabel ==
    LoadCompleted =>
      \A k \in 1..Len(lastOp.schema) :
         lastOp.schema[k].table_name \in graph.junction
            <=> lastOp.schema[k].is_junction_table

(***************************************************************************)
(* DescriptionSynthesizer (core/description_synthesizer.py).               *)
(* A provider response is a sequence of tokens:                            *)
(*   "{" "}"  the braces;                                                  *)
(*   "V"      brace-free text that is a well-formed JSON member list       *)
(*            passing CoreDescription validation once enclosed in braces;  *)
(*   "I"      brace-free well-formed member list failing the validation;   *)
(*   "p"      brace-free prose, not JSON.                                  *)
(***************************************************************************)
\* a response is a sequence of tokens: the braces, prose "p", and the member
\* lists an object may hold (ObjectContents)
Missing == "missing"
\* models.py 39-46: the members of the JSON object that CoreDescription reads;
\* confidence in tenths, -1 when the key is absent
ObjectMembers(content) ==
    CASE content = "V" -> [core_description |-> "d", stereotype |-> "Master", confidence |-> 9]
      [] content = "I" -> [core_description |-> Missing, stereotype |-> "Master", confidence |-> 9]
      [] content = "S" -> [core_description |-> "d", stereotype |-> "Banana", confidence |-> 9]
      [] content = "C" -> [core_description |-> "d", stereotype |-> "Master", confidence |-> 15]
      [] OTHER -> [core_description |-> Missing, stereotype |-> Missing, confidence |-> -1]
ObjectContents == {"V", "I", "S", "C"}
Tokens == {"{", "}", "p"} \cup ObjectContents
NoMatch == <<>>

\* the responses of at most n tokens (the empty response included)
Responses(n) == UNION {[1..k -> Tokens] : k \in 0..n}

\* re.search(r'\{.*\}', text, re.DOTALL): the leftmost '{' that has a '}'
\* after it, extended greedily to the last '}' of the text
RegexSearch(text) ==
    LET opens == {k \in 1..Len(text) : text[k] = "{"}
        closes == {k \in 1..Len(text) : text[k] = "}"}
        first == CHOOSE k \in opens : \A m \in opens : k <= m
        last == CHOOSE k \in closes : \A m \in closes : k >= m
    IN  IF opens = {} \/ closes = {} THEN NoMatch
        ELSE IF last < first THEN NoMatch
        ELSE SubSeq(text, first, last)

\* json.loads on a text that starts with '{' and ends with '}': it parses iff
\* the braces enclose nothing or one member list
JsonLoadsOk(s) == s \in {<<"{", "}">>} \cup {<<"{", c, "}">> : c \in ObjectContents}

\* json.loads: the dict of an object text
JsonLoads(s) == ObjectMembers(IF Len(s) = 3 THEN s[2] ELSE "")

\* description_synthesizer.py 75-87: the parsed dict, or ValueError
ParseLlmResponse(text) ==
    LET m == RegexSearch(text)
    IN  IF m = NoMatch THEN [raised |-> TRUE, value |-> NoMatch]
        ELSE IF ~JsonLoadsOk(m) THEN [raised |-> TRUE, value |-> NoMatch]
        ELSE [raised |-> FALSE, value |-> m]

\* models.py 39-46: CoreDescription(**parsed_data) validates: core_description
\* and stereotype are required strings, confidence a required number with
\* ge=0.0 and le=1.0
ValidatesAsCoreDescription(d) ==
    /\ JsonLoads(d).core_description # Missing
    /\ JsonLoads(d).stereotype # Missing
    /\ JsonLoads(d).confidence >= 0 /\ JsonLoads(d).confidence <= 10

\* description_synthesizer.py 96-121: what the except clause does with an
\* exception raised inside the try block
MutExceptReraises == [raised |-> TRUE, value |-> None]

ExceptException == [raised |-> FALSE, value |-> None]

\* description_synthesizer.py 89-121
Synthesize(prov) ==
    IF prov.raises THEN ExceptException
    ELSE IF prov.text = <<>> THEN [raised |-> FALSE, value |-> None]
    ELSE LET r == ParseLlmResponse(prov.text)
         IN  IF r.raised THEN ExceptException
             ELSE IF ~ValidatesAsCoreDescription(r.value) THEN ExceptException
             ELSE [raised |-> FALSE, value |-> "CoreDescription"]

(***************************************************************************)
(* SpecSynth: one call of synthesize, for every provider behaviour within  *)
(* the bound.                                                              *)
(***************************************************************************)
Providers(n) ==
    {[raises |-> TRUE, text |-> <<>>]} \cup
    {[raises |-> FALSE, text |-> r] : r \in Responses(n)}

InitSynth ==
    /\ graph = EmptyGraph /\ clock = 0
    /\ relational = RelationalAtStart
    /\ LoadIdle /\ RunIdle /\ ExtractIdle
    /\ spc = "call"
    /\ provider \in Providers(MaxResponseLen)
    /\ parsed = NoMatch
    /\ sresult = [raised |-> FALSE, value |-> None]
    /\ UnitIdle

\* description_synthesizer.py 96-110: generate_content, then the empty check
SynthCallProvider ==
    /\ spc = "call"
    /\ IF provider.raises
       THEN spc' = "returned" /\ sresult' = ExceptException
       ELSE IF provider.text = <<>>
            THEN spc' = "returned" /\ sresult' = [raised |-> FALSE, value |-> None]
            ELSE spc' = "parse" /\ UNCHANGED sresult
    /\ UNCHANGED <<graph, clock, loadVars, runVars, extractVars, provider, parsed>>
    /\ UNCHANGED <<unitVars, relational>>

\* description_synthesizer.py 113
SynthParse ==
    /\ spc = "parse"
    /\ LET r == ParseLlmResponse(provider.text)
       IN  IF r.raised
           THEN spc' = "returned" /\ sresult' = ExceptException /\ UNCHANGED parsed
           ELSE spc' = "validate" /\ parsed' = r.value /\ UNCHANGED sresult
    /\ UNCHANGED <<graph, clock, loadVars, runVars, extractVars, provider>>
    /\ UNCHANGED <<unitVars, relational>>

\* description_synthesizer.py 114-117
SynthValidate ==
    /\ spc = "validate"
    /\ spc' = "returned"
    /\ sresult' = IF ValidatesAsCoreDescription(parsed)
                  THEN [raised |-> FALSE, value |-> "CoreDescription"]
                  ELSE ExceptException
    /\ UNCHANGED <<graph, clock, loadVars, runVars, extractVars, provider, parsed>>
    /\ UNCHANGED <<unitVars, relational>>

NextSynth == SynthCallProvider \/ SynthParse \/ SynthValidate

SpecSynth == InitSynth /\ [][NextSynth]_vars

\* a well-formed JSON object occupies positions i..j of the text
ObjectAt(text, i, j) ==
    /\ 1 <= i /\ i < j /\ j <= Len(text)
    /\ \/ j = i + 1 /\ text[i] = "{" /\ text[j] = "}"
       \/ j = i + 2 /\ text[i] = "{" /\ text[i + 1] \in ObjectContents /\ text[j] = "}"
ObjectsOf(text) == {ij \in (1..Len(text)) \X (1..Len(text)) : ObjectAt(text, ij[1], ij[2])}
ValidObjectsOf(text) ==
    {ij \in ObjectsOf(text) : ij[2] = ij[1] + 2 /\ text[ij[1] + 1] \in {"V", "S"}}

\* C9: synthesize never raises; a provider exception, an empty response, a
\* response without a JSON object and an object failing validation give None;
\* a CoreDescription is returned only when the response holds a JSON object
\* that validates.
C9_SynthesizeNeverRaises ==
    spc = "returned" =>
      /\ ~sresult.raised
      /\ provider.raises => sresult.value = None
      /\ provider.text = <<>> => sresult.value = None
      /\ ObjectsOf(provider.text) = {} => sresult.value = None
      /\ ValidObjectsOf(provider.text) = {} => sresult.value = None
      /\ sresult.value # None =>
            ~provider.raises /\ ValidObjectsOf(provider.text) # {}

C9_Witness ==
    /\ spc = "returned"
    /\ provider.text = <<"p", "{", "I", "}">>
    /\ sresult = [raised |-> FALSE, value |-> None]

\* C10 (as claimed): when the response is one valid JSON object with arbitrary
\* text before and after it (text holding no further JSON object), synthesis
\* returns the CoreDescription of that object; when the response holds no JSON
\* object, synthesis returns None.
C10_ProseAroundObject ==
    (spc = "returned" /\ ~provider.raises) =>
      /\ (/\ Cardinality(ObjectsOf(provider.text)) = 1
          /\ Cardinality(ValidObjectsOf(provider.text)) = 1)
         => sresult.value = "CoreDescription"
      /\ ObjectsOf(provider.text) = {} => sresult.value = None

\* the stereotypes the specification enumerates
Stereotypes == {"Master", "Transaction", "Junction", "Config", "Log", "Detail", "Unknown"}

\* C11 (as claimed): synthesize returns a CoreDescription only if the parsed
\* object has core_description, a stereotype among Master, Transaction,
\* Junction, Config, Log, Detail, Unknown, and a confidence in [0,1]; an object
\* violating any of these yields None.
C11_StrictValidation ==
    spc = "returned" =>
      (sresult.value = "CoreDescription" <=>
         /\ ~provider.raises /\ parsed # NoMatch
         /\ JsonLoads(parsed).core_description # Missing
         /\ JsonLoads(parsed).stereotype \in Stereotypes
         /\ JsonLoads(parsed).confidence >= 0 /\ JsonLoads(parsed).confidence <= 10)

(***************************************************************************)
(* SpecExtract: SchemaExtractor.extract_schema over a source database of   *)
(* one or two tables of any shape within the bound; every inspector read   *)
(* may raise.                                                              *)
(***************************************************************************)
ColumnLists == {<<"x", "y">>, <<"x", "y", "z">>}
PkLists == {<<>>, <<"x">>, <<"x", "y">>, <<"z">>}
FkColumnLists == {<<"x">>, <<"y">>, <<"x", "y">>}
FkLists(n) ==
    UNION {[1..k -> {ForeignKeySchema(c, "r", c, None) : c \in FkColumnLists}] : k \in 0..n}

\* what the inspector reports for one table
SourceTables(name) ==
    UNION {{[table_name |-> name, columns |-> cs, primary_key |-> pk,
             foreign_keys |-> fks] :
               pk \in {q \in PkLists : Range(q) \subseteq Range(cs)},
               fks \in FkLists(MaxFks)} : cs \in ColumnLists}

SourceDatabases ==
    {<<t>> : t \in SourceTables("t1")} \cup
    {<<t, u>> : t \in SourceTables("t1"), u \in SourceTables("t2")}

\* extractor.py 42-76: the inspector reads made for one table, in order
Reads == {"get_columns", "get_foreign_keys", "get_table_comment", "get_pk_constraint",
          "get_unique_constraints", "get_indexes"}

\* ---------------------------------------------------------------------
\* The statements sent to the relational source
\* ---------------------------------------------------------------------

\* what the database does with one statement
Execute(db, stmt) ==
    CASE stmt.verb \in {"INSERT", "UPDATE", "DELETE"} ->
           [db EXCEPT !.row_changes = @ + 1]
      [] stmt.verb \in {"CREATE", "ALTER", "DROP"} ->
           [db EXCEPT !.schema_changes = @ + 1]
      [] OTHER -> db

RECURSIVE ExecuteAll(_, _)
ExecuteAll(db, stmts) ==
    IF stmts = <<>> THEN db
    ELSE ExecuteAll(Execute(db, Head(stmts)), Tail(stmts))

\* an Inspector read is a SELECT on the system catalogs
Reflection(read) == [verb |-> "SELECT", from |-> "catalog", what |-> read]
\* extractor.py 42-76: the reads of one iteration of the loop, in order
ReflectionOfTable ==
    <<Reflection("get_columns"), Reflection("get_foreign_keys"),
      Reflection("get_table_comment"), Reflection("get_pk_constraint"),
      Reflection("get_unique_constraints"), Reflection("get_indexes")>>
\* the reads of extract_schema: the table names, then the reads of a table
\* (the same reads again for every further table)
ReflectionOfSchema ==
    <<Reflection("get_table_names")>> \o ReflectionOfTable

MutSampleQueryDeletes == [verb |-> "DELETE", from |-> "column", what |-> "samples"]

\* data_profilers.py 27-31, 53 and 67: the three queries of the profiler
StatsQuery == [verb |-> "SELECT", from |-> "column", what |-> "stats"]
ValuesQuery == [verb |-> "SELECT", from |-> "column", what |-> "values"]
SampleQuery == [verb |-> "SELECT", from |-> "column", what |-> "samples"]

\* the statements the stock analyzers send for one entity: only the data
\* profiler reaches the relational source, and only for a Column (the
\* longest run: statistics, samples, distinct values)
AnalyzeStatements(entity) ==
    IF entity.type = "Column" THEN <<StatsQuery, SampleQuery, ValuesQuery>> ELSE <<>>

\* orchestrator.py 137-143: the evidence of every entity, at the cost gate
StatementsForAll(entities) ==
    Flatten([k \in 1..Len(entities) |-> AnalyzeStatements(entities[k])])

InitExtract ==
    /\ graph = EmptyGraph /\ clock = 0
    /\ relational = RelationalAtStart
    /\ LoadIdle /\ RunIdle /\ SynthIdle
    /\ xpc = "start"
    /\ source \in SourceDatabases
    /\ xi = 0 /\ xtables = <<>> /\ xfailed = {} /\ xresult = <<>>
    /\ UnitIdle

\* extractor.py 33-38: connect, inspector, table names
ExtractBegin ==
    /\ xpc = "start"
    /\ \E ok \in BOOLEAN :
         IF ok THEN xpc' = "loop" /\ xi' = 1
         ELSE xpc' = "raised" /\ xi' = 0
    /\ UNCHANGED <<graph, clock, loadVars, runVars, synthVars, source, xtables,
                   xfailed, xresult>>
    /\ relational' = ExecuteAll(relational, <<Reflection("get_table_names")>>)
    /\ UNCHANGED unitVars

\* extractor.py 40-109: one iteration of the loop over the table names; no
\* read is guarded, so a read that raises ends extract_schema with that
\* exception
ExtractTable ==
    /\ xpc = "loop" /\ xi <= Len(source)
    /\ \E failing \in {"none"} \cup Reads :
         IF failing = "none"
         THEN /\ xtables' = Append(xtables,
                     TableSchema(source[xi].table_name, source[xi].columns,
                                 source[xi].primary_key, source[xi].foreign_keys))
              /\ xi' = xi + 1
              /\ UNCHANGED <<xpc, xfailed>>
         ELSE /\ xpc' = "raised"
              /\ xfailed' = xfailed \cup {xi}
              /\ UNCHANGED <<xtables, xi>>
    /\ UNCHANGED <<graph, clock, loadVars, runVars, synthVars, source, xresult>>
    /\ relational' = ExecuteAll(relational, ReflectionOfTable)
    /\ UNCHANGED unitVars

\* extractor.py 111-112
ExtractReturn ==
    /\ xpc = "loop" /\ xi > Len(source)
    /\ xpc' = "returned"
    /\ xresult' = xtables
    /\ UNCHANGED <<graph, clock, loadVars, runVars, synthVars, source, xi, xtables,
                   xfailed>>
    /\ UNCHANGED <<unitVars, relational>>

NextExtract == ExtractBegin \/ ExtractTable \/ ExtractReturn

SpecExtract == InitExtract /\ [][NextExtract]_vars

\* the columns of table t that are a constrained column of some foreign key
FkColumnsOf(t) ==
    {c \in Range(t.columns) :
        \E k \in 1..Len(t.foreign_keys) : c \in Range(t.foreign_keys[k].constrained_columns)}

C8_FailureIsolation ==
    (/\ xpc \in {"raised", "returned"}
     /\ xfailed # {}
     /\ \E k \in 1..Len(source) : k \notin xfailed)
    => /\ xpc = "returned"
       /\ \A k \in 1..Len(source) :
            k \notin xfailed => \E j \in 1..Len(xresult) :
                                   xresult[j].table_name = source[k].table_name

(***************************************************************************)
(* Spec: Orchestrator.run_genesis (orchestrator.py), run after run on one  *)
(* graph that starts empty.                                                *)
(***************************************************************************)
\* what extract_schema returns in a run: the source database holds table a,
\* or table b in one of its two shapes (2 or 3 entities)
SourceSchemas == {<<TblA>>, <<TblB1>>, <<TblB2>>}

\* orchestrator.py 156: input(...).lower().strip()
Answers == {"yes", " YES ", "no"}
Lower(a) == IF a = " YES " THEN " yes " ELSE a
Strip(a) == IF a = " yes " THEN "yes" ELSE a
Normalize(a) == Strip(Lower(a))

\* orchestrator.py 151-157: the decision of _confirm_enrichment_cost
ConfirmEnrichmentCost(auto_confirm, answer) ==
    IF auto_confirm THEN TRUE ELSE Normalize(answer) = "yes"

\* orchestrator.py 206-240
MutEntitiesIgnoreEnriched(all_entities_from_db, force_rerun, query_ok, g) ==
    all_entities_from_db

GetEntitiesToEnrich(all_entities_from_db, force_rerun, query_ok, g) ==
    IF force_rerun THEN all_entities_from_db
    ELSE IF ~query_ok THEN all_entities_from_db
    ELSE SeqFilter(all_entities_from_db,
                   {e \in Range(all_entities_from_db) : e.name \notin EnrichedNodeNames(g)})

\* orchestrator.py 97-100: where run_genesis goes after the selection
MutSelectSkipsGate(targets) == IF targets = <<>> THEN "index" ELSE "evidence"

AfterSelection(targets) == IF targets = <<>> THEN "index" ELSE "gate"

\* orchestrator.py 100-104: where run_genesis goes after the cost gate
MutDeclineFallsThrough(proceed) == IF proceed THEN "evidence" ELSE "index"

AfterGate(proceed) == IF proceed THEN "evidence" ELSE "done"

\* orchestrator.py 164, 172, 180, 185, 192: the loop goes on with the next
\* entity (continue / end of the body), or leaves when the list is exhausted
MutSkipBreaks(i, n) == "index"

AfterEntity(i, n) == IF i + 1 > n THEN "index" ELSE "evidence"

\* embedding_generator.py 13
EMBEDDING_DIMENSIONS == 1536
\* a vector is modelled by its number of components; NoVector is None
NoVector == -1
\* the shapes of a provider response that generate looks at
\* (embedding_generator.py 57-74): response.embeddings is a list whose first
\* element has .values, is a dict with "values", is itself a list, or is
\* something else; response.embeddings is an empty list; the response has
\* only the older .embedding; the response has neither
ResponseShapes == {"embeddings_values", "embeddings_dict", "embeddings_list",
                   "embeddings_other", "embeddings_empty", "embedding", "neither"}
VectorLengths == {0, 1, EMBEDDING_DIMENSIONS - 1, EMBEDDING_DIMENSIONS,
                  EMBEDDING_DIMENSIONS + 1}
\* what the embedding provider does with a request
EmbeddingResponses ==
    {[raises |-> TRUE, shape |-> "neither", len |-> 0]} \cup
    {[raises |-> FALSE, shape |-> s, len |-> n] : s \in ResponseShapes, n \in VectorLengths}

\* embedding_generator.py 41: if not text or not isinstance(text, str)
RejectsText(txt) == txt.len = 0 \/ ~txt.is_str

\* embedding_generator.py 57-74: the vector taken from the response
ExtractVector(resp) ==
    IF resp.shape \in {"embeddings_values", "embeddings_dict", "embeddings_list",
                       "embedding"}
    THEN resp.len ELSE NoVector

\* embedding_generator.py 76-82: len(None) raises TypeError, which the except
\* clause turns into None; a vector of another length gives None
MutNoDimensionCheck(v) == v

VerifyDimensions(v) ==
    IF v = NoVector THEN NoVector
    ELSE IF v # EMBEDDING_DIMENSIONS THEN NoVector
    ELSE v

\* embedding_generator.py 31-86
Generate(txt, resp) ==
    IF RejectsText(txt) THEN [raised |-> FALSE, vec |-> NoVector]
    ELSE IF resp.raises THEN [raised |-> FALSE, vec |-> NoVector]
    ELSE [raised |-> FALSE, vec |-> VerifyDimensions(ExtractVector(resp))]

\* the provider behaviours met by the pipeline, and the description text
PipelineEmbeddingResponses ==
    {[raises |-> TRUE, shape |-> "neither", len |-> 0],
     [raises |-> FALSE, shape |-> "neither", len |-> 0],
     [raises |-> FALSE, shape |-> "embeddings_values", len |-> EMBEDDING_DIMENSIONS - 1],
     [raises |-> FALSE, shape |-> "embeddings_values", len |-> EMBEDDING_DIMENSIONS]}
DescriptionText == [is_str |-> TRUE, len |-> 1]

\* the provider behaviours met by the pipeline
PipelineProviders ==
    {[raises |-> TRUE, text |-> <<>>],
     [raises |-> FALSE, text |-> <<"p", "{", "V", "}">>],
     [raises |-> FALSE, text |-> <<"{", "I", "}">>]}

\* orchestrator.py 168: the dossier the registered analyzers give for an
\* entity is non-empty or empty, or an analyzer raises
EvidenceOutcomes == {"found", "empty", "raised"}

\* the steps made for one target entity; "?" : the step has not been made
NoSteps == [dossier |-> "?", desc |-> "?", vec |-> "?", update |-> "?"]

Init ==
    /\ graph = EmptyGraph /\ clock = 0
    /\ relational = RelationalAtStart
    /\ LoadIdle /\ RunIdle /\ ExtractIdle /\ SynthIdle
    /\ UnitIdle

\* the top-level except of run_genesis (orchestrator.py 120-124): the run ends
MutAbortReraises ==
    /\ pc' = "done"
    /\ ended' = "raised"

MutAbortGoesOn ==
    /\ pc' = "index"
    /\ ended' = "error"

Abort ==
    /\ pc' = "done"
    /\ ended' = "error"

\* a step of a run made inside the with block of run_genesis (orchestrator.py
\* 79-118): the step that ends the run leaves the block
LeaveWith ==
    connectors' = IF pc' = "done" THEN ExitConnectors(connectors) ELSE connectors

\* orchestrator.py 72-79: a run begins; both connectors are entered
StartRun ==
    /\ pc \in {"idle", "done"}
    /\ run < MaxRuns
    /\ run' = run + 1
    /\ clock' = clock + 1
    /\ params' \in [clean_db : BOOLEAN, force_rerun_enrichment : BOOLEAN,
                    auto_confirm : BOOLEAN]
    /\ db_schema' = <<>> /\ entities_to_process' = <<>> /\ queryFailed' = FALSE
    /\ gate' = NoGate /\ idx' = 0 /\ outcome' = <<>> /\ calls' = NoCalls
    /\ scaffold' = EmptyGraph
    /\ \E pgAnswer \in PostgresOutcomes, neoAnswer \in Neo4jOutcomes :
         LET entry == EnterConnectors(connectors, pgAnswer, neoAnswer) IN
         /\ connectors' = entry.connectors
         /\ IF entry.entered THEN pc' = "extract" /\ ended' = "none" ELSE Abort
    /\ UNCHANGED <<graph, loadVars, extractVars, synthVars>>
    /\ UNCHANGED <<workVars, relational>>

\* orchestrator.py 82
ExtractSchema ==
    /\ pc = "extract"
    /\ \/ \E s \in SourceSchemas :
            /\ db_schema' = s
            /\ pc' = "load"
            /\ UNCHANGED ended
       \/ Abort /\ UNCHANGED db_schema
    /\ UNCHANGED <<graph, clock, loadVars, extractVars, synthVars, run, params,
                   entities_to_process, queryFailed, gate, idx, outcome, calls, scaffold>>
    /\ relational' = ExecuteAll(relational, ReflectionOfSchema)
    /\ LeaveWith /\ UNCHANGED workVars

\* orchestrator.py 83
LoadSchema ==
    /\ pc = "load"
    /\ \E failAt \in LoadFailurePoints :
         /\ failAt = "clear" => params.clean_db
         /\ graph' = LoadSchemaGraph(graph, db_schema, params.clean_db, failAt)
         /\ IF failAt = "none"
            THEN pc' = "select" /\ scaffold' = graph' /\ UNCHANGED ended
            ELSE Abort /\ UNCHANGED scaffold
    /\ UNCHANGED <<clock, loadVars, extractVars, synthVars, run, params, db_schema,
                   entities_to_process, queryFailed, gate, idx, outcome, calls>>
    /\ LeaveWith /\ UNCHANGED <<workVars, relational>>

\* orchestrator.py 88-99 (sample_size not given)
SelectEntities ==
    /\ pc = "select"
    /\ LET is_forced == IF ~params.clean_db THEN params.force_rerun_enrichment ELSE TRUE
       IN  \E query_ok \in BOOLEAN :
             /\ is_forced => query_ok
             /\ queryFailed' = ~query_ok
             /\ entities_to_process' =
                  GetEntitiesToEnrich(Entities(db_schema), is_forced, query_ok, graph)
    /\ outcome' = [i \in 1..Len(entities_to_process') |-> NoSteps]
    /\ pc' = AfterSelection(entities_to_process')
    /\ UNCHANGED <<graph, clock, loadVars, extractVars, synthVars, run, params,
                   db_schema, gate, idx, calls, scaffold, ended>>
    /\ LeaveWith /\ UNCHANGED <<workVars, relational>>

\* orchestrator.py 100-102, 135-157: evidence collection and cost estimate
\* (reads only), then the auto-confirm override or the prompt
CostGate ==
    /\ pc = "gate"
    /\ \/ \E answer \in (IF params.auto_confirm THEN {""} ELSE Answers) :
            LET proceed == ConfirmEnrichmentCost(params.auto_confirm, answer)
            IN  /\ gate' = [requests |-> gate.requests + 1,
                            outcome |-> IF params.auto_confirm THEN "auto"
                                        ELSE "answered",
                            answer |-> answer, proceed |-> proceed]
                /\ pc' = AfterGate(proceed)
                /\ ended' = IF pc' = "done" THEN "declined" ELSE ended
                /\ idx' = IF proceed THEN 1 ELSE idx
       \/ \E prompted \in BOOLEAN :
            \* an exception while the evidence is collected or the cost is
            \* estimated (no prompt yet), or raised by input()
            /\ prompted => ~params.auto_confirm
            /\ gate' = [requests |-> gate.requests + (IF prompted THEN 1 ELSE 0),
                        outcome |-> "error", answer |-> "", proceed |-> FALSE]
            /\ Abort
            /\ UNCHANGED idx
    /\ UNCHANGED <<graph, clock, loadVars, extractVars, synthVars, run, params,
                   db_schema, entities_to_process, queryFailed, outcome, calls, scaffold>>
    /\ relational' = ExecuteAll(relational, StatementsForAll(entities_to_process))
    /\ LeaveWith /\ UNCHANGED workVars

\* the loop of _execute_enrichment_phase moves to the next entity
NextEntity ==
    /\ pc' = AfterEntity(idx, Len(entities_to_process))
    /\ idx' = idx + 1

\* orchestrator.py 167-172: the evidence dossier of the entity (what the
\* registered analyzers return)
CollectEvidence ==
    /\ pc = "evidence" /\ idx <= Len(entities_to_process)
    /\ \E dossier \in EvidenceOutcomes :
         /\ outcome' = [outcome EXCEPT ![idx].dossier = dossier]
         /\ CASE dossier = "found" -> pc' = "synth" /\ UNCHANGED <<idx, ended>>
              [] dossier = "empty" -> NextEntity /\ UNCHANGED ended
              [] dossier = "raised" -> Abort /\ UNCHANGED idx
    /\ UNCHANGED <<graph, clock, loadVars, extractVars, synthVars, run, params,
                   db_schema, entities_to_process, queryFailed, gate, calls, scaffold>>
    /\ relational' = ExecuteAll(relational,
                    IF idx \in DOMAIN entities_to_process
                      THEN AnalyzeStatements(entities_to_process[idx]) ELSE <<>>)
    /\ LeaveWith /\ UNCHANGED workVars

\* orchestrator.py 177-180
SynthesizeDescription ==
    /\ pc = "synth"
    /\ calls' = [calls EXCEPT !.synth = @ + 1]
    /\ \E prov \in PipelineProviders :
         LET r == Synthesize(prov)
         IN  IF r.raised
             THEN Abort /\ UNCHANGED <<outcome, idx>>
             ELSE IF r.value = None
                  THEN /\ outcome' = [outcome EXCEPT ![idx].desc = "none"]
                       /\ NextEntity
                       /\ UNCHANGED ended
                  ELSE /\ outcome' = [outcome EXCEPT ![idx].desc = "ok"]
                       /\ pc' = "embed"
                       /\ UNCHANGED <<idx, ended>>
    /\ UNCHANGED <<graph, clock, loadVars, extractVars, synthVars, run, params,
                   db_schema, entities_to_process, queryFailed, gate, scaffold>>
    /\ LeaveWith /\ UNCHANGED <<workVars, relational>>

\* orchestrator.py 182-185
GenerateEmbedding ==
    /\ pc = "embed"
    /\ calls' = [calls EXCEPT !.embed = @ + 1]
    /\ \E resp \in PipelineEmbeddingResponses :
         IF Generate(DescriptionText, resp).vec = NoVector
         THEN /\ outcome' = [outcome EXCEPT ![idx].vec = "none"]
              /\ NextEntity
         ELSE /\ outcome' = [outcome EXCEPT ![idx].vec = "ok"]
              /\ pc' = "persist"
              /\ UNCHANGED idx
    /\ UNCHANGED <<graph, clock, loadVars, extractVars, synthVars, run, params,
                   db_schema, entities_to_process, queryFailed, gate, scaffold, ended>>
    /\ LeaveWith /\ UNCHANGED <<workVars, relational>>

\* orchestrator.py 187-192: update_node_enrichment, then the success counter;
\* an exception that is no Neo4jError leaves the loop and the run
PersistEnrichment ==
    /\ pc = "persist"
    /\ \E result \in UpdateResults :
         /\ graph' = UpdateNodeEnrichmentGraph(graph, entities_to_process[idx].type,
                                               entities_to_process[idx].name, clock, result)
         /\ outcome' = [outcome EXCEPT ![idx].update = result]
         /\ IF result = "driver_error"
            THEN /\ Abort
                 /\ calls' = [calls EXCEPT !.update = @ + 1]
                 /\ UNCHANGED idx
            ELSE /\ NextEntity
                 /\ calls' = [calls EXCEPT !.update = @ + 1,
                                           !.successful_enrichments = @ + 1]
                 /\ UNCHANGED ended
    /\ UNCHANGED <<clock, loadVars, extractVars, synthVars, run, params, db_schema,
                   entities_to_process, queryFailed, gate, scaffold>>
    /\ LeaveWith /\ UNCHANGED <<workVars, relational>>

\* orchestrator.py 110; loader.py 162-193 (only a Neo4jError is caught there)
CreateVectorIndex ==
    /\ pc = "index"
    /\ calls' = [calls EXCEPT !.index = @ + 1]
    /\ \E result \in UpdateResults :
         IF result = "driver_error" THEN Abort
         ELSE pc' = "relations" /\ UNCHANGED ended
    /\ UNCHANGED <<graph, clock, loadVars, extractVars, synthVars, run, params,
                   db_schema, entities_to_process, queryFailed, gate, idx, outcome,
                   scaffold>>
    /\ LeaveWith /\ UNCHANGED <<workVars, relational>>

\* orchestrator.py 113: relation discovery runs, or raises
FindAndCreateRelations ==
    /\ pc = "relations"
    /\ calls' = [calls EXCEPT !.relations = @ + 1]
    /\ \E ok \in BOOLEAN :
         IF ok THEN pc' = "report" /\ UNCHANGED ended ELSE Abort
    /\ UNCHANGED <<graph, clock, loadVars, extractVars, synthVars, run, params,
                   db_schema, entities_to_process, queryFailed, gate, idx, outcome,
                   scaffold>>
    /\ LeaveWith /\ UNCHANGED <<workVars, relational>>

\* orchestrator.py 115-118
FinalReport ==
    /\ pc = "report"
    /\ calls' = [calls EXCEPT !.report = @ + 1]
    /\ pc' = "done"
    /\ ended' = "success"
    /\ UNCHANGED <<graph, clock, loadVars, extractVars, synthVars, run, params,
                   db_schema, entities_to_process, queryFailed, gate, idx, outcome,
                   scaffold>>
    /\ LeaveWith /\ UNCHANGED <<workVars, relational>>

Next ==
    \/ StartRun \/ ExtractSchema \/ LoadSchema \/ SelectEntities \/ CostGate
    \/ CollectEvidence \/ SynthesizeDescription \/ GenerateEmbedding
    \/ PersistEnrichment \/ CreateVectorIndex \/ FindAndCreateRelations
    \/ FinalReport

Spec == Init /\ [][Next]_vars

\* C30: when run_genesis has returned, after a successful run, a declined cost
\* gate or an exception caught at the top level (a failure to connect to either
\* store included), the relational connector holds no engine and the graph
\* connector holds no driver: both were closed and reset to None
C30_ConnectionsReleased == pc = "done" => connectors = Disconnected

(***************************************************************************)
(* Properties of run_genesis                                               *)
(***************************************************************************)
\* the phases of a run that follow the selection of the target list
PostSelect == {"gate", "evidence", "synth", "embed", "persist", "index",
               "relations", "report"}

\* the entities of the source schema that carried is_enriched = true when
\* the target list was selected
EnrichedAtSelection ==
    {e \in Range(Entities(db_schema)) : scaffold.enr[e.name]["is_enriched"] # 0}

\* the target list holds exactly the entities not yet enriched, in the order
\* of the full list, and so N - K of them
TargetsAreTheUnenriched ==
    /\ Range(entities_to_process) = Range(Entities(db_schema)) \ EnrichedAtSelection
    /\ entities_to_process = SeqFilter(Entities(db_schema), Range(entities_to_process))
    /\ Len(entities_to_process) =
         Len(Entities(db_schema)) - Cardinality(EnrichedAtSelection)

ConfirmationGiven ==
    \/ gate.outcome = "auto"
    \/ gate.outcome = "answered" /\ Normalize(gate.answer) = "yes"

\* C2: no description-synthesis or embedding request is issued in a run
\* before the cost confirmation has been requested and given, and the
\* confirmation is requested at most once per run.
C2_CostGateBarrier ==
    /\ gate.requests <= 1
    /\ (calls.synth > 0 \/ calls.embed > 0)
           => gate.requests = 1 /\ ConfirmationGiven

C2_Witness ==
    /\ calls.synth > 0 /\ calls.embed > 0
    /\ gate.requests = 1 /\ gate.outcome = "answered"

\* the run ended right after the gate: nothing synthesized, embedded or
\* written, no vector index, no relation discovery, no report, no error, and
\* the graph still the structural scaffold
DeclinedRun ==
    /\ pc = "done" /\ ended = "declined"
    /\ calls = NoCalls
    /\ graph = scaffold

\* C3 as stated: when the answer to the cost prompt is anything other than
\* "yes", the run ends with zero synthesis calls, zero embedding calls, zero
\* enrichment writes, no vector index, no relation discovery, and the graph
\* holding only the structural scaffold.
C3_DeclineAsClaimed ==
    (gate.outcome = "answered" /\ gate.answer # "yes") => DeclinedRun

\* C3: when the answer to the cost prompt, lower-cased and stripped of
\* surrounding whitespace, is anything other than "yes", the run ends with
\* zero synthesis calls, zero embedding calls, zero enrichment writes, no
\* vector index, no relation discovery, and the graph holding only the
\* structural scaffold.
C3_Decline ==
    (gate.outcome = "answered" /\ Normalize(gate.answer) # "yes") => DeclinedRun

C3_Witness ==
    /\ gate.outcome = "answered" /\ gate.answer = "no"
    /\ pc = "done" /\ ended = "declined"
    /\ graph.tableCount["a"] = 1
    /\ Len(entities_to_process) >= 1

\* every step of the entity has been made as far as its results allow
StepsComplete(e) ==
    /\ e.dossier \in {"found", "empty"}
    /\ e.dossier = "found" => e.desc # "?"
    /\ e.desc = "ok" => e.vec # "?"
    /\ e.vec = "ok" => e.update # "?"

\* the enrichment loop has returned
EnrichmentPhaseOver ==
    /\ gate.proceed
    /\ pc \in {"index", "relations", "report"} \/ (pc = "done" /\ calls.index > 0)

\* C4: entities are processed one at a time in list order; for each the
\* steps are evidence, synthesis, embedding, persistence, a later step being
\* made only when the earlier one produced a result; an entity with an empty
\* dossier, no description or no vector is skipped and the loop goes on with
\* the next one; update is called exactly for the entities with a non-empty
\* dossier, a description and a vector.
C4_SkipAndContinue ==
    /\ \A i \in 1..Len(outcome) :
         /\ outcome[i].desc # "?" => outcome[i].dossier = "found"
         /\ outcome[i].vec # "?" => outcome[i].desc = "ok"
         /\ outcome[i].update # "?" => outcome[i].vec = "ok"
         /\ i < idx => StepsComplete(outcome[i])
         /\ i > idx => outcome[i] = NoSteps
    /\ calls.update = Cardinality({i \in 1..Len(outcome) : outcome[i].update # "?"})
    /\ EnrichmentPhaseOver =>
         \A i \in 1..Len(outcome) : StepsComplete(outcome[i])
    /\ (pc = "done" /\ ended = "error" /\ gate.proceed /\ calls.index = 0)
           => \/ outcome[idx].update = "driver_error"
              \/ outcome[idx].dossier = "raised"

C4_Witness ==
    /\ EnrichmentPhaseOver
    /\ Len(outcome) = 3
    /\ outcome[1].dossier = "empty"
    /\ outcome[2].desc = "ok" /\ outcome[2].vec = "none"
    /\ outcome[3].update = "ok"

\* C6: the six enrichment properties of a node are written together or not
\* at all: at all times a node carries all six from one and the same write,
\* or (never enriched) none of them.
C6_AtomicEnrichmentWrite ==
    \A n \in NodeNames :
        \A p \in EnrichmentProps : graph.enr[n][p] = graph.enr[n]["is_enriched"]

C6_Witness ==
    /\ run = 2 /\ pc = "done"
    /\ \E i, j \in 1..Len(outcome) :
         /\ outcome[i].update = "ok"
         /\ graph.enr[entities_to_process[i].name]["is_enriched"] = 2
         /\ outcome[j].update = "neo4j_error"
         /\ graph.enr[entities_to_process[j].name]["is_enriched"] = 1

\* the write of the current entity fails with a Neo4jError in this step
WriteFails == pc = "persist" /\ outcome'[idx].update = "neo4j_error"
\* from the end of one run to the selection of the next, made with
\* clean_db = false
BetweenRuns ==
    \/ pc \in {"idle", "done"}
    \/ pc \in {"extract", "load", "select"} /\ ~params.clean_db

\* C23: a write that fails with a graph-store error leaves the graph as it
\* was (is_enriched is not set) and the loop goes on with the next entity;
\* nothing between the end of a run and the selection of the next run made
\* with clean_db = false changes an enrichment property; and in a run with
\* clean_db = false and force_rerun_enrichment = false every entity of the
\* schema that was not marked is_enriched is in the target list.
C23_Recovery ==
    /\ [][WriteFails =>
             /\ graph' = graph
             /\ ended' = ended /\ idx' = idx + 1
             /\ pc' = IF idx < Len(entities_to_process) THEN "evidence" ELSE "index"]_vars
    /\ [][BetweenRuns => graph'.enr = graph.enr]_vars
    /\ []((pc \in PostSelect /\ ~params.clean_db /\ ~params.force_rerun_enrichment) =>
            \A e \in Range(Entities(db_schema)) :
               scaffold.enr[e.name]["is_enriched"] = 0 => e \in Range(entities_to_process))

\* second run, clean_db = false, nothing forced: the first run enriched
\* part of the schema, the rest is targeted again; the write of the first
\* target has just failed, its node is still unmarked and the loop is at the
\* second target
C23_Witness ==
    /\ run = 2 /\ ~params.clean_db /\ ~params.force_rerun_enrichment /\ ~queryFailed
    /\ pc = "evidence" /\ idx = 2
    /\ Len(entities_to_process) = 2 /\ Len(Entities(db_schema)) = 3
    /\ outcome[1].update = "neo4j_error"
    /\ graph.enr[entities_to_process[1].name]["is_enriched"] = 0
    /\ \E e \in Range(Entities(db_schema)) : graph.enr[e.name]["is_enriched"] = 1

\* the place of a position of run_genesis in the order of the phases
PhaseRank(p) ==
    CASE p = "extract" -> 1
      [] p = "load" -> 2
      [] p = "select" -> 3
      [] p = "gate" -> 4
      [] p \in {"evidence", "synth", "embed", "persist"} -> 5
      [] p = "index" -> 6
      [] p = "relations" -> 7
      [] p = "report" -> 8
      [] OTHER -> 9

\* C24: within a run the phases follow in the order extraction, scaffold
\* load, selection, cost gate, enrichment, vector indexes, relation
\* discovery, cost report, none starting before the one before it has
\* finished (a phase is left out only going forward: no targets, a decline,
\* an exception); and when extraction or the scaffold load raises, no later
\* step is made: no selection, no gate, no model call, no enrichment write,
\* no index creation, no relation discovery, no report.
C24_PhaseOrder ==
    /\ [][(pc \notin {"idle", "done"} /\ pc' # pc) =>
             /\ PhaseRank(pc') >= PhaseRank(pc)
             /\ pc \in {"extract", "load"} => pc' \in {"load", "select", "done"}
             /\ (pc = "extract" /\ pc' = "load") => db_schema' # <<>>
             /\ PhaseRank(pc') = PhaseRank(pc) => pc \in {"evidence", "synth", "embed", "persist"}
             /\ pc \in {"index", "relations", "report"} =>
                   PhaseRank(pc') \in {PhaseRank(pc) + 1, 9}]_vars
    /\ [](/\ calls.report > 0 => calls.relations > 0
          /\ calls.relations > 0 => calls.index > 0
          /\ calls.index > 0 => scaffold # EmptyGraph
          /\ (calls.synth > 0 \/ calls.embed > 0 \/ calls.update > 0) => gate.proceed
          /\ gate # NoGate => (scaffold # EmptyGraph /\ entities_to_process # <<>>)
          /\ entities_to_process # <<>> => scaffold # EmptyGraph
          /\ scaffold # EmptyGraph => db_schema # <<>>)
    /\ []((pc = "done" /\ ended = "error" /\ scaffold = EmptyGraph) =>
            /\ calls = NoCalls /\ gate = NoGate /\ entities_to_process = <<>>)

\* a run that went through every phase, with at least one enrichment write
C24_Witness ==
    /\ pc = "done" /\ ended = "success"
    /\ gate.proceed
    /\ calls.synth > 0 /\ calls.embed > 0 /\ calls.update > 0
    /\ calls.index = 1 /\ calls.relations = 1 /\ calls.report = 1

\* the targets whose node was written with is_enriched = true in this run
WrittenThisRun ==
    {i \in 1..Len(outcome) :
       /\ outcome[i].update = "ok"
       /\ graph.enr[entities_to_process[i].name]["is_enriched"] = clock}

\* C26: the number of successes counted by _execute_enrichment_phase is the
\* number of target entities whose node was written with is_enriched = true
\* in that phase; an entity whose write failed is not counted.
C26_TruthfulCount ==
    EnrichmentPhaseOver => calls.successful_enrichments = Cardinality(WrittenThisRun)

\* the phases of a run that follow the scaffold load
AfterLoad == {"select", "gate", "evidence", "synth", "embed", "persist", "index",
              "relations", "report"}

\* a step in which an exception escapes a phase after the scaffold load:
\* the run ends there, and neither by success nor by a declined gate
ExceptionEscapes ==
    /\ pc \in AfterLoad
    /\ pc' = "done"
    /\ ended' \notin {"success", "declined"}

\* the enrichment written in this run is in the graph, on top of the scaffold
PersistedRemains ==
    /\ Structure(graph) = Structure(scaffold)
    /\ \A i \in 1..Len(outcome) :
         outcome[i].update = "ok" =>
             \A p \in EnrichmentProps : graph.enr[entities_to_process[i].name][p] = clock
    /\ \A n \in NodeNames :
         (\A i \in 1..Len(outcome) :
              entities_to_process[i].name = n => outcome[i].update # "ok")
             => graph.enr[n] = scaffold.enr[n]

\* C13: when an exception escapes a phase of run_genesis after the scaffold
\* load, with k entities persisted, run_genesis ends without raising, the
\* failing step leaves scaffold, enrichment and the call counters of all other steps as
\* they were, no later step of the run is made (the next step is the start of
\* another run), and the scaffold and the enrichment of the k entities are
\* in the graph.
C13_TopLevelFailure ==
    /\ [][ExceptionEscapes =>
             /\ ended' = "error"
             /\ Structure(graph') = Structure(graph) /\ graph'.enr = graph.enr
             /\ \A c \in {"synth", "embed", "update", "index", "relations", "report"} :
                  c # (IF pc = "persist" THEN "update" ELSE pc) => calls'[c] = calls[c]]_vars
    /\ [][pc = "done" => run' = run + 1]_vars
    /\ []((pc = "done" /\ ended = "error" /\ scaffold # EmptyGraph) => PersistedRemains)

C13_Witness ==
    /\ pc = "done" /\ ended = "error"
    /\ Len(outcome) = 3
    /\ idx = 3 /\ outcome[3].update = "driver_error"
    /\ outcome[1].update = "ok" /\ outcome[2].update = "ok"
    /\ graph.enr[entities_to_process[1].name]["is_enriched"] = clock
    /\ graph.enr[entities_to_process[3].name]["is_enriched"] = 0

(***************************************************************************)
(* SpecEmbed: one call of EmbeddingGenerator.generate, for every argument  *)
(* and every provider behaviour within the bounds.                         *)
(***************************************************************************)
baseVars == <<graph, clock, loadVars, runVars, extractVars, synthVars>>
coreVars == <<baseVars, relational>>

\* the arguments of generate: a string of some length, or another value
\* that is falsy (len 0) or truthy
Texts == {[is_str |-> s, len |-> n] : s \in BOOLEAN, n \in 0..MaxTextLen}

InitEmbed ==
    /\ graph = EmptyGraph /\ clock = 0
    /\ relational = RelationalAtStart
    /\ ConnIdle
    /\ LoadIdle /\ RunIdle /\ ExtractIdle /\ SynthIdle /\ SampleIdle /\ CostIdle /\ TrackIdle
    /\ ProfileIdle /\ RelationIdle
    /\ epc = "call"
    /\ etext \in Texts
    /\ eresponse \in EmbeddingResponses
    /\ embedding_vector = [raised |-> FALSE, vec |-> NoVector]

\* embedding_generator.py 41-42
EmbedCheckText ==
    /\ epc = "call"
    /\ IF RejectsText(etext)
       THEN epc' = "returned" /\ embedding_vector' = [raised |-> FALSE, vec |-> NoVector]
       ELSE epc' = "request" /\ UNCHANGED embedding_vector
    /\ UNCHANGED <<coreVars, notEmbedVars, etext, eresponse>>

\* embedding_generator.py 44-86
EmbedRequest ==
    /\ epc = "request"
    /\ epc' = "returned"
    /\ embedding_vector' = Generate(etext, eresponse)
    /\ UNCHANGED <<coreVars, notEmbedVars, etext, eresponse>>

NextEmbed == EmbedCheckText \/ EmbedRequest

SpecEmbed == InitEmbed /\ [][NextEmbed]_vars

\* C12: generate never raises and returns either None or a vector of exactly
\* EMBEDDING_DIMENSIONS components; empty or non-string input, a provider
\* exception, a response with no embedding and a vector of any other length
\* all give None.
C12_EmbeddingDimensions ==
    epc = "returned" =>
      /\ ~embedding_vector.raised
      /\ embedding_vector.vec \in {NoVector, 1536}
      /\ (etext.len = 0 \/ ~etext.is_str) => embedding_vector.vec = NoVector
      /\ eresponse.raises => embedding_vector.vec = NoVector
      /\ eresponse.shape \in {"embeddings_other", "embeddings_empty", "neither"}
            => embedding_vector.vec = NoVector
      /\ eresponse.len # 1536 => embedding_vector.vec = NoVector

C12_Witness ==
    /\ epc = "returned"
    /\ etext = [is_str |-> TRUE, len |-> 1]
    /\ eresponse = [raises |-> FALSE, shape |-> "embeddings_values", len |-> 1536]
    /\ embedding_vector.vec = 1536

(***************************************************************************)
(* SpecSample: the sampling step of run_genesis (orchestrator.py 92-95),   *)
(* made in several runs over the same target list with the same            *)
(* sample_size.                                                            *)
(***************************************************************************)
\* the target lists: the first n entities of a schema with five entities
TargetLists ==
    {SubSeq(Entities(<<TblA, TblB2>>), 1, n) : n \in 0..MaxTargets}

\* sample_size: None, or an int
SampleSizes ==
    {[given |-> FALSE, value |-> 0]} \cup
    {[given |-> TRUE, value |-> v] : v \in -1..(MaxTargets + 1)}

\* the generator: as the process found it ("fresh"), right after
\* random.seed(42) ("seed42"), after numbers were drawn from it ("advanced")
RngStates == {"fresh", "seed42", "advanced"}

\* random.seed(42); random.sample(range(1, n+1), n) of CPython 3.11; with
\* the same seed random.sample(.., k) is the first k of it (n <= 6)
SeededPermutation(n) ==
    CASE n = 0 -> <<>>
      [] n = 1 -> <<1>>
      [] n = 2 -> <<1, 2>>
      [] n = 3 -> <<3, 1, 2>>
      [] n = 4 -> <<1, 4, 2, 3>>
      [] n = 5 -> <<1, 5, 3, 2, 4>>
      [] OTHER -> <<6, 1, 5, 3, 2, 4>>

\* the selections of k positions out of n, in any order
Arrangements(n, k) ==
    {s \in [1..k -> 1..n] : \A i, j \in 1..k : i # j => s[i] # s[j]}

\* orchestrator.py 93
MutSeedOmitted(r) == r

Seed(r) == "seed42"

Min(a, b) == IF a <= b THEN a ELSE b

\* random.sample(population, k) from generator state r: the lists it can
\* return; none when it raises ValueError (k negative)
RandomSample(population, k, r) ==
    IF k < 0 THEN {}
    ELSE IF r = "seed42"
         THEN {[i \in 1..k |-> population[SeededPermutation(Len(population))[i]]]}
         ELSE {[i \in 1..k |-> population[s[i]]] : s \in Arrangements(Len(population), k)}

InitSample ==
    /\ graph = EmptyGraph /\ clock = 0
    /\ relational = RelationalAtStart
    /\ ConnIdle
    /\ LoadIdle /\ RunIdle /\ ExtractIdle /\ SynthIdle /\ EmbedIdle /\ CostIdle /\ TrackIdle
    /\ ProfileIdle /\ RelationIdle
    /\ kpc = "start"
    /\ ktargets \in TargetLists
    /\ sample_size \in SampleSizes
    /\ rng \in {"fresh", "advanced"}
    /\ sampled = <<>>

\* orchestrator.py 92: if sample_size
SampleCheck ==
    /\ kpc = "start"
    /\ IF sample_size.given /\ sample_size.value # 0
       THEN kpc' = "seed" /\ UNCHANGED sampled
       ELSE /\ kpc' = "returned"
            /\ sampled' = Append(sampled, [raised |-> FALSE, list |-> ktargets])
    /\ UNCHANGED <<coreVars, notSampleVars, ktargets, sample_size, rng>>

\* orchestrator.py 93: random.seed(42)
SampleSeed ==
    /\ kpc = "seed"
    /\ rng' = Seed(rng)
    /\ kpc' = "sample"
    /\ UNCHANGED <<coreVars, notSampleVars, ktargets, sample_size, sampled>>

\* orchestrator.py 94: random.sample(entities_to_process, min(sample_size, len(..)))
SampleDraw ==
    /\ kpc = "sample"
    /\ LET lists == RandomSample(ktargets, Min(sample_size.value, Len(ktargets)), rng)
       IN  IF lists = {}
           THEN sampled' = Append(sampled, [raised |-> TRUE, list |-> <<>>])
           ELSE \E l \in lists : sampled' = Append(sampled, [raised |-> FALSE, list |-> l])
    /\ rng' = "advanced"
    /\ kpc' = "returned"
    /\ UNCHANGED <<coreVars, notSampleVars, ktargets, sample_size>>

\* another run over the same target list, in this process or a new one
SampleAgain ==
    /\ kpc = "returned"
    /\ Len(sampled) < MaxSampleRuns
    /\ kpc' = "start"
    /\ rng' \in {"fresh", rng}
    /\ UNCHANGED <<coreVars, notSampleVars, ktargets, sample_size, sampled>>

NextSample == SampleCheck \/ SampleSeed \/ SampleDraw \/ SampleAgain

SpecSample == InitSample /\ [][NextSample]_vars

\* the list is made of exactly m distinct members of the target list
IsSampleOf(l, m) ==
    /\ Len(l) = m
    /\ Range(l) \subseteq Range(ktargets)
    /\ Cardinality(Range(l)) = m

\* every run made so far processes min(S, size of the target list) distinct
\* entities of the target list, and all runs the same ones in the same order
SamplesAgree ==
    /\ \A r \in 1..Len(sampled) :
         /\ ~sampled[r].raised
         /\ IsSampleOf(sampled[r].list, Min(sample_size.value, Len(ktargets)))
    /\ \A r, q \in 1..Len(sampled) : sampled[r] = sampled[q]

\* C14 as stated: when sample_size S is given, the entities processed are a
\* subset of the target list with exactly min(S, size of the target list)
\* distinct members, and two runs with the same target list and the same S
\* process the same subset in the same order.
C14_SamplingAsClaimed == sample_size.given => SamplesAgree

\* C14: when a sample_size S >= 1 is given, the entities processed are a
\* subset of the target list with exactly min(S, size of the target list)
\* distinct members, and two runs with the same target list and the same S
\* process the same subset in the same order.
C14_Sampling == (sample_size.given /\ sample_size.value >= 1) => SamplesAgree

C14_Witness ==
    /\ Len(sampled) = 2
    /\ sample_size = [given |-> TRUE, value |-> 2]
    /\ Len(ktargets) = 3
    /\ Len(sampled[1].list) = 2
    /\ sampled[1] = sampled[2]

(***************************************************************************)
(* SpecCost: EnrichmentCostCalculator.estimate_cost applied to an input    *)
(* and to the same input with one more entity or with one entity's         *)
(* evidence text lengthened.  Texts are strings over a two-letter          *)
(* alphabet.  The primary tokenizer is a byte-pair encoder (tiktoken): the *)
(* model keeps its algorithm, with a vocabulary of two merges.             *)
(***************************************************************************)
Chars == {"a", "b"}
TextsUpTo(n) == UNION {[1..k -> Chars] : k \in 0..n}

\* the ranked merges of the encoder: b+b -> bb, then a+bb -> abb
BpeMerges == << <<(<<"b">>), (<<"b">>)>>, <<(<<"a">>), (<<"b", "b">>)>> >>

\* one merge applied to a token list, left to right
RECURSIVE ApplyMerge(_, _)
ApplyMerge(toks, m) ==
    IF Len(toks) < 2 THEN toks
    ELSE IF toks[1] = m[1] /\ toks[2] = m[2]
         THEN <<m[1] \o m[2]>> \o ApplyMerge(SubSeq(toks, 3, Len(toks)), m)
         ELSE <<toks[1]>> \o ApplyMerge(Tail(toks), m)

\* tokenizer.encode(text): merges applied in rank order
RECURSIVE BpeEncodeFrom(_, _)
BpeEncodeFrom(toks, r) ==
    IF r > Len(BpeMerges) THEN toks
    ELSE BpeEncodeFrom(ApplyMerge(toks, BpeMerges[r]), r + 1)
Encode(txt) == BpeEncodeFrom([i \in 1..Len(txt) |-> <<txt[i]>>], 1)

\* cost_calculator.py 33-39
CountTokens(tok, txt) ==
    IF tok = "tiktoken" THEN Len(Encode(txt)) ELSE Len(txt) \div 4

\* cost_calculator.py 31
estimated_output_tokens_per_entity == 120

\* the fixed texts: PROMPT_TEMPLATE, and the line naming the entity
\* (cost_calculator.py 28, 61)
PromptTemplate == <<"a", "a", "b", "b">>
CostNames == {"t", "t.c"}
EntityLine(name) == IF name = "t" THEN <<"a", "b">> ELSE <<"a", "b", "b", "a">>

\* cost_calculator.py 56-71: the input tokens of the entities from position i
RECURSIVE InputTokens(_, _, _, _)
InputTokens(tok, all_entities, evidence_map, i) ==
    IF i > Len(all_entities) THEN 0
    ELSE CountTokens(tok, PromptTemplate)
         + CountTokens(tok, EntityLine(all_entities[i]))
         + CountTokens(tok, evidence_map[all_entities[i]])
         + InputTokens(tok, all_entities, evidence_map, i + 1)

\* f"${total_cost:.2f}": tenths of a cent rounded to cents, ties to even
FormatCents(c) ==
    LET q == c \div 10
        r == c % 10
    IN  IF r > 5 \/ (r = 5 /\ q % 2 = 1) THEN q + 1 ELSE q

\* cost_calculator.py 41-87
EstimateCost(tok, pr, all_entities, evidence_map) ==
    LET total_input_tokens == InputTokens(tok, all_entities, evidence_map, 1)
        total_output_tokens == Len(all_entities) * estimated_output_tokens_per_entity
        total_cost == total_input_tokens * pr.input + total_output_tokens * pr.output
    IN  [entity_count |-> Len(all_entities),
         estimated_input_tokens |-> total_input_tokens,
         estimated_output_tokens |-> total_output_tokens,
         estimated_total_tokens |-> total_input_tokens + total_output_tokens,
         total_cost |-> total_cost,
         total_estimated_cost_usd |-> FormatCents(total_cost)]

EntityLists == {<<>>, <<"t">>, <<"t", "t.c">>}

InitCost ==
    /\ graph = EmptyGraph /\ clock = 0
    /\ relational = RelationalAtStart
    /\ ConnIdle
    /\ LoadIdle /\ RunIdle /\ ExtractIdle /\ SynthIdle /\ EmbedIdle /\ SampleIdle /\ TrackIdle
    /\ ProfileIdle /\ RelationIdle
    /\ cpc = "base"
    /\ tokenizer \in {"tiktoken", "fallback"}
    /\ price \in [input : 0..MaxPrice, output : 0..MaxPrice]
    /\ cost_input \in [all_entities : EntityLists,
                       evidence_map : [CostNames -> TextsUpTo(MaxEvidenceLen)]]
    /\ cost_grown = [all_entities |-> <<>>, evidence_map |-> <<>>]
    /\ cost_report = <<>>

\* one more entity at the end of the entity list, all else equal
CostAddEntity ==
    /\ cpc = "base"
    /\ \E name \in CostNames \ Range(cost_input.all_entities) :
         cost_grown' = [cost_input EXCEPT !.all_entities = Append(@, name)]
    /\ cpc' = "grown"
    /\ UNCHANGED <<coreVars, notCostVars, tokenizer, price, cost_input, cost_report>>

\* the evidence text of one entity of the list lengthened by one character
CostLengthenEvidence ==
    /\ cpc = "base"
    /\ \E name \in Range(cost_input.all_entities), c \in Chars :
         cost_grown' = [cost_input EXCEPT !.evidence_map[name] = Append(@, c)]
    /\ cpc' = "grown"
    /\ UNCHANGED <<coreVars, notCostVars, tokenizer, price, cost_input, cost_report>>

\* estimate_cost on both inputs
CostEstimate ==
    /\ cpc = "grown"
    /\ cost_report' =
         <<EstimateCost(tokenizer, price, cost_input.all_entities, cost_input.evidence_map),
           EstimateCost(tokenizer, price, cost_grown.all_entities, cost_grown.evidence_map)>>
    /\ cpc' = "estimated"
    /\ UNCHANGED <<coreVars, notCostVars, tokenizer, price, cost_input, cost_grown>>

NextCost == CostAddEntity \/ CostLengthenEvidence \/ CostEstimate

SpecCost == InitCost /\ [][NextCost]_vars

\* the second report is nowhere below the first, and both are consistent
CostNotDecreasing ==
    /\ cost_report[2].estimated_input_tokens >= cost_report[1].estimated_input_tokens
    /\ cost_report[2].estimated_output_tokens >= cost_report[1].estimated_output_tokens
    /\ cost_report[2].estimated_total_tokens >= cost_report[1].estimated_total_tokens
    /\ cost_report[2].total_cost >= cost_report[1].total_cost
    /\ cost_report[2].total_estimated_cost_usd >= cost_report[1].total_estimated_cost_usd
ReportsConsistent ==
    \A k \in 1..2 :
        /\ cost_report[k].estimated_total_tokens =
             cost_report[k].estimated_input_tokens + cost_report[k].estimated_output_tokens
        /\ cost_report[k].estimated_output_tokens = 120 * cost_report[k].entity_count

\* C15 (as claimed): with prices fixed and non-negative, the estimated token
\* totals and the total cost do not decrease when an entity is added to the
\* entity list nor when the evidence text of an entity is lengthened, with
\* the primary tokenizer and with the fallback len(text) // 4; and in every
\* report total tokens = input + output tokens and output tokens = 120 x
\* entity count.
C15_CostMonotone ==
    cpc = "estimated" => CostNotDecreasing /\ ReportsConsistent

\* what does hold: the same restricted to the fallback tokenizer, or to the
\* addition of an entity; and the consistency of every report
CostMonotoneWhereItHolds ==
    cpc = "estimated" =>
      /\ ReportsConsistent
      /\ (tokenizer = "fallback"
          \/ Len(cost_grown.all_entities) > Len(cost_input.all_entities))
            => CostNotDecreasing

(***************************************************************************)
(* SpecTrack: RelationCostCalculator.track_call (cost_calculator.py        *)
(* 114-118) invoked once by each of several workers at the same time.      *)
(* Each of the three `+=` statements loads the attribute, adds, and stores *)
(* it back; another worker can run between the load and the store.         *)
(***************************************************************************)
Workers == 1..MaxWorkers

\* the statements of track_call in order, each as a load and a store
TrackFields == <<"total_prompt_tokens", "total_completion_tokens",
                 "total_verification_calls">>
TrackPositions == {[stmt |-> s, at |-> a] : s \in 1..3, a \in {"load", "store"}}
TrackDone == [stmt |-> 4, at |-> "load"]

\* what the statement adds to its total
Increment(w, s) ==
    CASE s = 1 -> wargs[w].prompt_tokens
      [] s = 2 -> wargs[w].completion_tokens
      [] OTHER -> 1

InitTrack ==
    /\ graph = EmptyGraph /\ clock = 0
    /\ relational = RelationalAtStart
    /\ ConnIdle
    /\ LoadIdle /\ RunIdle /\ ExtractIdle /\ SynthIdle
    /\ EmbedIdle /\ SampleIdle /\ CostIdle /\ ProfileIdle /\ RelationIdle
    /\ tracker = [total_prompt_tokens |-> 0, total_completion_tokens |-> 0,
                  total_verification_calls |-> 0]
    /\ wpc = [w \in Workers |-> [stmt |-> 1, at |-> "load"]]
    /\ wargs \in [Workers -> [prompt_tokens : 1..MaxTokens, completion_tokens : 1..MaxTokens]]
    /\ wtmp = [w \in Workers |-> 0]

\* the worker reads the total of its current statement
TrackLoad(w) ==
    /\ wpc[w] \in TrackPositions /\ wpc[w].at = "load"
    /\ wtmp' = [wtmp EXCEPT ![w] = tracker[TrackFields[wpc[w].stmt]]]
    /\ wpc' = [wpc EXCEPT ![w].at = "store"]
    /\ UNCHANGED <<coreVars, notTrackVars, tracker, wargs>>

\* the worker stores the sum back and moves to the next statement
TrackStore(w) ==
    /\ wpc[w] \in TrackPositions /\ wpc[w].at = "store"
    /\ tracker' = [tracker EXCEPT ![TrackFields[wpc[w].stmt]] =
                                     wtmp[w] + Increment(w, wpc[w].stmt)]
    /\ wpc' = [wpc EXCEPT ![w] = [stmt |-> wpc[w].stmt + 1, at |-> "load"]]
    /\ UNCHANGED <<coreVars, notTrackVars, wargs, wtmp>>

NextTrack == \E w \in Workers : TrackLoad(w) \/ TrackStore(w)

SpecTrack == InitTrack /\ [][NextTrack]_vars

RECURSIVE SumOver(_, _)
SumOver(f, S) ==
    IF S = {} THEN 0
    ELSE LET w == CHOOSE x \in S : TRUE IN f[w] + SumOver(f, S \ {w})

\* C16 (as claimed): when track_call is invoked by several workers
\* concurrently, after all invocations complete total_verification_calls
\* equals the number of invocations and total_prompt_tokens and
\* total_completion_tokens equal the sums of the arguments passed.
C16_NoLostUpdates ==
    (\A w \in Workers : wpc[w] = TrackDone) =>
        /\ tracker.total_verification_calls = Cardinality(Workers)
        /\ tracker.total_prompt_tokens =
             SumOver([w \in Workers |-> wargs[w].prompt_tokens], Workers)
        /\ tracker.total_completion_tokens =
             SumOver([w \in Workers |-> wargs[w].completion_tokens], Workers)

\* ---------------------------------------------------------------------
\* SmartDataProfilerAnalyzer (analyzers/stock/data_profilers.py)
\* ---------------------------------------------------------------------

MINIMUM_ROWS_FOR_ANALYSIS == 50
MAX_DISTINCT_VALUES == 30
\* MAX_DISTINCT_RATIO = 0.1, kept as the fraction 1 / 10 so that
\* distinct_count / total_rows < 0.1 is the integer test below
MAX_DISTINCT_RATIO_DENOMINATOR == 10
RANDOM_SAMPLE_LIMIT == 5

ProfileQueries == {"stats", "samples", "values"}
\* total rows of the table, around the row threshold and the ratio
TotalRows == {0, 49, 50, 290, 1000}
\* COUNT(DISTINCT col), which leaves NULLs out
DistinctCounts == {0, 4, 5, 29, 30, 500}

\* the columns analyze may be called on, with the queries that fail
ProfileContexts ==
    { c \in [node_type : {"Table", "Column"}, total_rows : TotalRows,
             distinct_count : DistinctCounts, nonnull_rows : TotalRows \cup DistinctCounts,
             failing : SUBSET ProfileQueries] :
        /\ c.distinct_count <= c.nonnull_rows
        /\ c.nonnull_rows <= c.total_rows
        /\ c.nonnull_rows \in {c.distinct_count, c.total_rows}
        /\ (c.distinct_count = 0 <=> c.nonnull_rows = 0) }

MutRatioIgnored(total_rows, distinct_count) ==
    total_rows >= MINIMUM_ROWS_FOR_ANALYSIS /\ distinct_count < MAX_DISTINCT_VALUES

\* lines 43-47
IsLikelyCategorical(total_rows, distinct_count) ==
    /\ total_rows >= MINIMUM_ROWS_FOR_ANALYSIS
    /\ distinct_count < MAX_DISTINCT_VALUES
    /\ IF total_rows > 0
         THEN distinct_count * MAX_DISTINCT_RATIO_DENOMINATOR < total_rows
         ELSE TRUE

\* the rows of SELECT DISTINCT ... LIMIT 30, in an order the database picks
DistinctRows(c) ==
    LET n == Min(c.distinct_count, MAX_DISTINCT_VALUES)
    IN  [i \in 1..n |-> n + 1 - i]

\* _build_evidence_chunk
BuildEvidenceChunk(samples, distincts) ==
    [kind |-> "chunk",
     sample_values |-> samples,
     cardinality_type |-> IF distincts # <<>> THEN "LOW_RELATIVE" ELSE "",
     distinct_values |-> distincts,
     empty_note |-> samples = 0 /\ distincts = <<>>]

\* _fetch_random_samples: the number of sampled values, or the chunk built
\* from them; [] when the query raises
FetchRandomSamples(c, return_content) ==
    IF "samples" \in c.failing
      THEN [NoChunk EXCEPT !.kind = "list"]
      ELSE LET samples == Min(c.nonnull_rows, RANDOM_SAMPLE_LIMIT)
           IN  IF return_content THEN BuildEvidenceChunk(samples, <<>>)
                                 ELSE [NoChunk EXCEPT !.kind = "list", !.sample_values = samples]

InitProfile ==
    /\ graph = EmptyGraph /\ clock = 0
    /\ relational = RelationalAtStart
    /\ ConnIdle
    /\ LoadIdle /\ RunIdle /\ ExtractIdle /\ SynthIdle
    /\ EmbedIdle /\ SampleIdle /\ CostIdle /\ TrackIdle /\ RelationIdle
    /\ ppc = "start"
    /\ pcontext \in ProfileContexts
    /\ plocals = NoLocals /\ queried = {} /\ presult = NoChunk

\* lines 18-19: only Column nodes are profiled
ProfileBegin ==
    /\ ppc = "start"
    /\ IF pcontext.node_type # "Column"
         THEN ppc' = "returned" /\ presult' = NoChunk
         ELSE ppc' = "stats" /\ UNCHANGED presult
    /\ UNCHANGED <<pcontext, plocals, queried>>
    /\ UNCHANGED <<coreVars, notProfileVars>>

\* lines 26-47: the statistics query, its fallback and the classification
ProfileStats ==
    /\ ppc = "stats"
    /\ IF "stats" \in pcontext.failing
         THEN /\ queried' = queried \cup {"stats", "samples"}
              /\ presult' = FetchRandomSamples(pcontext, TRUE)
              /\ ppc' = "returned"
              /\ UNCHANGED plocals
         ELSE /\ queried' = queried \cup {"stats"}
              /\ plocals' = [plocals EXCEPT !.is_likely_categorical =
                               IsLikelyCategorical(pcontext.total_rows, pcontext.distinct_count)]
              /\ ppc' = "samples"
              /\ UNCHANGED presult
    /\ UNCHANGED pcontext
    /\ relational' = ExecuteAll(relational, IF "stats" \in pcontext.failing THEN <<StatsQuery, SampleQuery>> ELSE <<StatsQuery>>)
    /\ UNCHANGED <<baseVars, notProfileVars>>

\* line 50
ProfileSamples ==
    /\ ppc = "samples"
    /\ queried' = queried \cup {"samples"}
    /\ plocals' = [plocals EXCEPT !.random_samples =
                     FetchRandomSamples(pcontext, FALSE).sample_values]
    /\ ppc' = IF plocals.is_likely_categorical THEN "values" ELSE "build"
    /\ UNCHANGED <<pcontext, presult>>
    /\ relational' = ExecuteAll(relational, <<SampleQuery>>)
    /\ UNCHANGED <<baseVars, notProfileVars>>

\* lines 52-55, and lines 60-62 when the query raises
ProfileValues ==
    /\ ppc = "values"
    /\ queried' = queried \cup {"values"}
    /\ IF "values" \in pcontext.failing
         THEN ppc' = "returned" /\ presult' = NoChunk /\ UNCHANGED plocals
         ELSE /\ plocals' = [plocals EXCEPT !.distinct_values =
                               SortSeq(DistinctRows(pcontext), LAMBDA a, b : a < b)]
              /\ ppc' = "build"
              /\ UNCHANGED presult
    /\ UNCHANGED pcontext
    /\ relational' = ExecuteAll(relational, <<ValuesQuery>>)
    /\ UNCHANGED <<baseVars, notProfileVars>>

\* line 58
ProfileBuild ==
    /\ ppc = "build"
    /\ presult' = BuildEvidenceChunk(plocals.random_samples, plocals.distinct_values)
    /\ ppc' = "returned"
    /\ UNCHANGED <<pcontext, plocals, queried>>
    /\ UNCHANGED <<coreVars, notProfileVars>>

NextProfile ==
    \/ ProfileBegin
    \/ ProfileStats
    \/ ProfileSamples
    \/ ProfileValues
    \/ ProfileBuild

SpecProfile == InitProfile /\ [][NextProfile]_vars

ProfiledColumn == ppc = "returned" /\ pcontext.node_type = "Column"
StatsSucceeded == "stats" \notin pcontext.failing
ThresholdsMet ==
    /\ pcontext.total_rows >= 50
    /\ pcontext.distinct_count < 30
    /\ 10 * pcontext.distinct_count < pcontext.total_rows
    /\ pcontext.distinct_count >= 1
Ascending(s) == \A i \in 1..(Len(s) - 1) : s[i] < s[i + 1]
ClassifiedByThresholds ==
    /\ presult.kind = "chunk"
    /\ (presult.distinct_values # <<>> <=> ThresholdsMet)
    /\ presult.distinct_values # <<>> =>
         /\ Len(presult.distinct_values) = pcontext.distinct_count
         /\ Ascending(presult.distinct_values)
    /\ "samples" \in queried

C18_GracefulDegradation ==
    (ProfiledColumn /\ Cardinality(pcontext.failing) = 1 /\ pcontext.failing \subseteq queried)
        => /\ presult.kind = "chunk"
           /\ "samples" \notin pcontext.failing => presult.distinct_values = <<>>

\* C19: no step of run_genesis (schema extraction, evidence collection at
\* the cost gate, data profiling during enrichment, relation discovery)
\* changes the relational database: every step leaves its state as it was,
\* so the state after a run is the state before it.
C19_RelationalReadOnly == [][relational' = relational]_vars

\* a run that extracted the schema, profiled a Column at the cost gate and
\* again during enrichment, and ended with the source as it found it
C19_Witness ==
    /\ pc = "done" /\ ended = "success"
    /\ gate.outcome \in {"auto", "answered"}
    /\ \E i \in 1..Len(outcome) :
         /\ entities_to_process[i].type = "Column"
         /\ outcome[i].dossier = "found"
    /\ relational = RelationalAtStart

\* ---------------------------------------------------------------------
\* ImplicitRelationFinder.find_and_create_relations (spec.md, section 4.8;
\* the finder is built at orchestrator.py 46-49 and called by
\* services/relation-finder/entrypoint.py 32-39) and
\* SchemaLoader.create_implicit_relation (loader.py 196-216)
\* ---------------------------------------------------------------------

MaxTopK == 3

RelTables == <<"a", "b", "c">>
RelTableSet == Range(RelTables)
\* the EXPLICIT_FK_TO edges of the scaffold, as <<node, target>>
FkEdgeSets == { {}, {<<"a", "b">>}, {<<"b", "a">>}, {<<"a", "b">>, <<"c", "a">>},
                {<<"a", "a">>, <<"b", "c">>} }
\* cosine similarity of two tables' embeddings, in hundredths
Similarities ==
    { [p \in {{"a", "b"}, {"a", "c"}, {"b", "c"}} |->
         CASE p = {"a", "b"} -> 90 [] p = {"a", "c"} -> 85 [] OTHER -> 70],
      [p \in {{"a", "b"}, {"a", "c"}, {"b", "c"}} |->
         CASE p = {"a", "b"} -> 70 [] OTHER -> 95] }
\* --min-similarity 0.8 and --min-confidence 0.85 are the defaults of the
\* service; a stricter similarity is a second case
MinSimilarities == {80, 90}
MinConfidences == {85}
RelationInputs ==
    [enriched : SUBSET RelTableSet, fk : FkEdgeSets, similarity : Similarities,
     top_k : 1..MaxTopK, min_similarity_score : MinSimilarities,
     min_llm_confidence : MinConfidences]

Score(inp, x, y) == IF x = y THEN 100 ELSE inp.similarity[{x, y}]

\* the answers of the vector index to "the top_k nodes nearest to source":
\* only nodes with an embedding are indexed, the node is its own nearest
\* neighbour, and ties are broken as the index pleases
TopKSets(inp, node) ==
    LET k == Min(inp.top_k, Cardinality(inp.enriched))
    IN  { S \in SUBSET inp.enriched :
            /\ Cardinality(S) = k
            /\ \A x \in S, y \in inp.enriched \ S :
                  Score(inp, node, x) >= Score(inp, node, y) }

FkJoined(inp, x, y) == <<x, y>> \in inp.fk \/ <<y, x>> \in inp.fk

MutFkOneDirection(inp, node, nearest) ==
    { x \in nearest : x # node /\ <<node, x>> \notin inp.fk }

\* step (a): the node itself and the tables joined to it by EXPLICIT_FK_TO
\* in either direction are discarded
DiscardKnown(inp, node, nearest) ==
    { x \in nearest : x # node /\ ~FkJoined(inp, node, x) }

\* step (b)
FilterSimilar(inp, node, found) ==
    { x \in found : Score(inp, node, x) >= inp.min_similarity_score }

\* step (d)
Accepted(inp, judgment) ==
    judgment.relationship_exists /\ judgment.confidence_score >= inp.min_llm_confidence

InitRelations ==
    /\ graph = EmptyGraph /\ clock = 0
    /\ relational = RelationalAtStart
    /\ ConnIdle
    /\ LoadIdle /\ RunIdle /\ ExtractIdle /\ SynthIdle
    /\ EmbedIdle /\ SampleIdle /\ CostIdle /\ TrackIdle /\ ProfileIdle
    /\ rpc = "query"
    /\ rinput \in RelationInputs
    /\ rsource = 1
    /\ rcandidates = {} /\ rjudged = {} /\ rimplicit = {} /\ rcalls = 0

\* steps (a) and (b) for the next Table node; a node that is not enriched
\* is passed over
RelationCandidates ==
    /\ rpc = "query" /\ rsource <= Len(RelTables)
    /\ IF RelTables[rsource] \notin rinput.enriched
         THEN rsource' = rsource + 1 /\ UNCHANGED <<rpc, rcandidates>>
         ELSE /\ \E nearest \in TopKSets(rinput, RelTables[rsource]) :
                   rcandidates' = FilterSimilar(rinput, RelTables[rsource],
                                     DiscardKnown(rinput, RelTables[rsource], nearest))
              /\ rpc' = "verify"
              /\ UNCHANGED rsource
    /\ UNCHANGED <<rinput, rjudged, rimplicit, rcalls>>
    /\ UNCHANGED <<coreVars, notRelationVars>>

\* steps (c), (d), (e) for one candidate of the current source; the edge
\* write may fail in the driver, which create_implicit_relation swallows
RelationVerify ==
    /\ rpc = "verify" /\ rcandidates # {}
    /\ \E target \in rcandidates, judgment \in Judgments, written \in BOOLEAN :
         /\ rjudged' = rjudged \cup {<<RelTables[rsource], target>>}
         /\ rcalls' = rcalls + 1
         /\ rimplicit' = IF Accepted(rinput, judgment) /\ written
                           THEN CreateImplicitRelation(rimplicit, RelTables[rsource],
                                                       target, judgment)
                           ELSE rimplicit
         /\ rcandidates' = rcandidates \ {target}
    /\ UNCHANGED <<rpc, rinput, rsource>>
    /\ UNCHANGED <<coreVars, notRelationVars>>

\* the candidates of the source are exhausted
RelationNextSource ==
    /\ rpc = "verify" /\ rcandidates = {}
    /\ rsource' = rsource + 1
    /\ rpc' = "query"
    /\ UNCHANGED <<rinput, rcandidates, rjudged, rimplicit, rcalls>>
    /\ UNCHANGED <<coreVars, notRelationVars>>

RelationsReturn ==
    /\ rpc = "query" /\ rsource > Len(RelTables)
    /\ rpc' = "returned"
    /\ UNCHANGED <<rinput, rsource, rcandidates, rjudged, rimplicit, rcalls>>
    /\ UNCHANGED <<coreVars, notRelationVars>>

NextRelations ==
    \/ RelationCandidates
    \/ RelationVerify
    \/ RelationNextSource
    \/ RelationsReturn

SpecRelations == InitRelations /\ [][NextRelations]_vars

KnownPair(x, y) == x = y \/ <<x, y>> \in rinput.fk \/ <<y, x>> \in rinput.fk

\* C20: while find_and_create_relations runs, the candidate set of the
\* source Table node never holds the source itself nor a table joined to it
\* by an EXPLICIT_FK_TO edge in either direction, and for such a pair no
\* verification judgment is requested and no IMPLICIT_RELATION_TO edge is
\* created.
C20_RelationDedup ==
    /\ rpc = "verify" => \A x \in rcandidates : ~KnownPair(RelTables[rsource], x)
    /\ \A p \in rjudged : ~KnownPair(p[1], p[2])
    /\ \A e \in rimplicit : ~KnownPair(e.source, e.target)

\* the index offered c itself, its FK neighbour a and the table b; the run
\* is over, the pair c-b was judged and an edge written, the pair c-a never
C20_Witness ==
    /\ rpc = "returned"
    /\ rinput.fk = {<<"a", "b">>, <<"c", "a">>}
    /\ rinput.enriched = RelTableSet /\ rinput.top_k = 3
    /\ <<"c", "b">> \in rjudged
    /\ \E e \in rimplicit : e.source = "c" /\ e.target = "b"



\* ------------------------------------------------------------------------
\* The two connectors on their own: any sequence of calls on one
\* PostgresConnector and one Neo4jConnector
\* ------------------------------------------------------------------------
MaxConnOps == 5

InitConnect ==
    /\ graph = EmptyGraph /\ clock = 0
    /\ relational = RelationalAtStart
    /\ LoadIdle /\ RunIdle /\ ExtractIdle /\ SynthIdle
    /\ UnitIdle

ConnCall(op, result, attempted) ==
    /\ conn_ops < MaxConnOps
    /\ conn_ops' = conn_ops + 1
    /\ conn_last' = [op |-> op, result |-> result, attempted |-> attempted]
    /\ UNCHANGED <<coreVars, notConnVars>>

\* neo4j_connector.py 24-38
NeoConnect ==
    \E answer \in Neo4jOutcomes :
        LET r == Neo4jConnect(connectors.driver, answer) IN
        /\ connectors' = [connectors EXCEPT !.driver = r.driver]
        /\ conn_since' = (conn_since \/ ~r.raised)
        /\ ConnCall("neo4j.connect", IF r.raised THEN "raised" ELSE "returned", r.attempted)

\* neo4j_connector.py 40-47
NeoDisconnect ==
    /\ connectors' = [connectors EXCEPT !.driver = Neo4jDisconnect(connectors.driver)]
    /\ conn_since' = FALSE
    /\ ConnCall("neo4j.disconnect", "returned", FALSE)

\* neo4j_connector.py 49-64
NeoGetSession ==
    /\ UNCHANGED <<connectors, conn_since>>
    /\ ConnCall("neo4j.get_session", Neo4jGetSession(connectors.driver), FALSE)

\* postgres_connector.py 24-41
PgConnect ==
    \E answer \in PostgresOutcomes :
        LET r == PostgresConnect(connectors.engine, answer) IN
        /\ connectors' = [connectors EXCEPT !.engine = r.engine]
        /\ UNCHANGED conn_since
        /\ ConnCall("postgres.connect", IF r.raised THEN "raised" ELSE "returned", r.attempted)

\* postgres_connector.py 43-51
PgDisconnect ==
    /\ connectors' = [connectors EXCEPT !.engine = PostgresDisconnect(connectors.engine)]
    /\ UNCHANGED conn_since
    /\ ConnCall("postgres.disconnect", "returned", FALSE)

\* postgres_connector.py 53-69
PgGetInspector ==
    /\ UNCHANGED <<connectors, conn_since>>
    /\ ConnCall("postgres.get_inspector", PostgresGetInspector(connectors.engine), FALSE)

NextConnect ==
    \/ NeoConnect \/ NeoDisconnect \/ NeoGetSession
    \/ PgConnect \/ PgDisconnect \/ PgGetInspector

SpecConnect == InitConnect /\ [][NextConnect]_vars

ConnectRaised == conn_last.op = "neo4j.connect" /\ conn_last.result = "raised"

\* C29: get_session returns a session only when a connect() has completed without
\* raising and no disconnect() has happened since; after a connect() that raised
\* the connector holds no driver, the next get_session raises ConnectionError and
\* the next connect() attempts the connection again; connect() on a connector that
\* holds a driver and disconnect() on one that holds none leave the driver as it was
C29_ConnectionState ==
    /\ [](conn_last = [op |-> "neo4j.get_session", result |-> "session",
                       attempted |-> FALSE] => conn_since)
    /\ [](ConnectRaised => connectors.driver = "None")
    /\ [][ConnectRaised /\ conn_last'.op = "neo4j.get_session"
            => conn_last'.result = "ConnectionError"]_vars
    /\ [][ConnectRaised /\ conn_last'.op = "neo4j.connect" => conn_last'.attempted]_vars
    /\ [][/\ conn_last'.op = "neo4j.connect" /\ connectors.driver # "None"
            => connectors'.driver = connectors.driver]_vars
    /\ [][/\ conn_last'.op = "neo4j.disconnect" /\ connectors.driver = "None"
            => connectors'.driver = "None"]_vars

====
